---- MODULE Spec2Model ----
(***************************************************************************)
(* Model of the global-fit assembly of pylake: lumicks/pylake/fdfit.py     *)
(* (parse_transformation, _generate_conditions, Parameters, FitObject,     *)
(* Data, Condition, Model, CompositeModel, InverseModel, invert_function)   *)
(* and of lumicks/pylake/fitting/model.py (the build flag, Model,           *)
(* CompositeModel, InverseModel, SubtractIndependentOffset).                *)
(*                                                                         *)
(* Conventions.  A Python OrderedDict is a sequence of entries             *)
(* [k |-> key, v |-> value] in insertion order.  A transformation value is *)
(* a tagged record: PyStr(s) for a str, PyFloat(n) for a float (n is the   *)
(* integral value, 14 stands for 14.0).  Indices stored in data_link and   *)
(* p_indices are 0-based as in the source; sequences are 1-based, so an    *)
(* access adds 1.  A call either returns or raises: a result is a record   *)
(* whose field exc is "" on return and the exception's name on a raise.    *)
(***************************************************************************)
EXTENDS Integers, Sequences, FiniteSets, TLC

VARIABLES
    object,         \* which object the calls are made on: a fdfit.FitObject or a
                    \* fitting.model.Model (the two share no state)
    _data,          \* FitObject._data: list of Data
    _conditions,    \* FitObject._conditions: list of Condition
    _data_link,     \* FitObject._data_link: list of lists of 0-based data indices
    _parameters,    \* FitObject._parameters._src: OrderedDict name -> Parameter
    _built,         \* FitObject._built
    model_data,         \* fitting.model.Model._data: list of FitData
    model_conditions,   \* fitting.model.Model._conditions
    model_data_link,    \* fitting.model.Model._data_link
    model_built,        \* fitting.model.Model._built: None, False or a fit object
    model,          \* the model object built by +, invert() and subtract_offset()
    frame,          \* the frame of a FitObject.fit() call that is inside the solver
    objects,        \* the Parameter objects that are alive, by identity (used where
                    \* the registry is followed object by object)
    call,           \* the last call made on the object and its arguments
    ret             \* what that call returned or raised

fit_vars == <<_data, _conditions, _data_link, _parameters, _built>>
model_vars == <<model_data, model_conditions, model_data_link, model_built>>
vars == <<object, fit_vars, model_vars, model, frame, objects, call, ret>>

----------------------------------------------------------------------------
(* Bounds of the model *)

MaxData == 3        \* at most this many load_data calls are made on an object
MaxKwargs == 2      \* at most this many keywords in a direct call of parse_transformation

----------------------------------------------------------------------------
(* Python values *)

PyStr(s) == [kind |-> "str", s |-> s, n |-> 0]
PyFloat(n) == [kind |-> "float", s |-> "", n |-> n]

isinstance_str(x) == x.kind = "str"

\* str(x): a str is itself, a float prints with its fractional part
str(x) == IF x.kind = "str" THEN x.s ELSE ToString(x.n) \o ".0"

\* float("inf") and float("-inf") of Parameter's default bounds
PosInf == 1000000
NegInf == -1000000

Range(seq) == {seq[i] : i \in DOMAIN seq}

RECURSIVE SumSeq(_)
SumSeq(seq) == IF seq = <<>> THEN 0 ELSE Head(seq) + SumSeq(Tail(seq))

\* OrderedDict helpers
Keys(od) == [i \in DOMAIN od |-> od[i].k]
Values(od) == [i \in DOMAIN od |-> od[i].v]
HasKey(od, key) == \E i \in DOMAIN od : od[i].k = key
Get(od, key) == od[CHOOSE i \in DOMAIN od : od[i].k = key].v
\* od[key] = value: overwrite in place when the key exists, append otherwise
SetKey(od, key, value) ==
    IF HasKey(od, key)
    THEN [i \in DOMAIN od |-> IF od[i].k = key THEN [k |-> key, v |-> value] ELSE od[i]]
    ELSE Append(od, [k |-> key, v |-> value])

\* OrderedDict(zip(ks, vs)): zip stops at the shorter list, a repeated key keeps
\* its first position and takes the last value
RECURSIVE ZipDict(_, _, _)
ZipDict(ks, vs, acc) ==
    IF ks = <<>> \/ vs = <<>> THEN acc
    ELSE ZipDict(Tail(ks), Tail(vs), SetKey(acc, Head(ks), Head(vs)))

\* list.index(x): 0-based position of the first occurrence
ListIndex(seq, x) == (CHOOSE i \in DOMAIN seq : seq[i] = x /\ \A j \in 1..(i-1) : seq[j] # x) - 1

\* concatenation of a list of lists
RECURSIVE Flatten(_)
Flatten(seqs) == IF seqs = <<>> THEN <<>> ELSE Head(seqs) \o Flatten(Tail(seqs))

----------------------------------------------------------------------------
(* detail.utilities: unique, unique_idx *)

\* unique(seq): the distinct elements in first-seen order
RECURSIVE unique(_)
unique(seq) ==
    IF seq = <<>> THEN <<>>
    ELSE LET init == unique(SubSeq(seq, 1, Len(seq) - 1))
             last == seq[Len(seq)]
         IN IF last \in Range(init) THEN init ELSE Append(init, last)

\* unique_idx(seq): the distinct elements and, per element of seq, the 0-based
\* position of its value among them
unique_idx(seq) ==
    LET u == unique(seq)
    IN [uniq |-> u, indices |-> [i \in DOMAIN seq |-> ListIndex(u, seq[i])]]

----------------------------------------------------------------------------
(* parse_transformation *)

\* the loop returns after its first pass
parse_loop_once(transformed, kwargs) ==
    IF kwargs = <<>> THEN [exc |-> "", val |-> transformed]
    ELSE IF HasKey(transformed, Head(kwargs).k)
         THEN [exc |-> "", val |-> SetKey(transformed, Head(kwargs).k, Head(kwargs).v)]
         ELSE [exc |-> "KeyError", val |-> <<>>]

\* the loop passes over a keyword that is no key of transformed
RECURSIVE parse_loop_skips(_, _)
parse_loop_skips(transformed, kwargs) ==
    IF kwargs = <<>> THEN [exc |-> "", val |-> transformed]
    ELSE parse_loop_skips(IF HasKey(transformed, Head(kwargs).k)
                          THEN SetKey(transformed, Head(kwargs).k, Head(kwargs).v)
                          ELSE transformed,
                          Tail(kwargs))

\* the loop over kwargs.items(): kwargs is a list of [k, v] with distinct keys
RECURSIVE parse_loop(_, _)
parse_loop(transformed, kwargs) ==
    IF kwargs = <<>> THEN [exc |-> "", val |-> transformed]
    ELSE IF HasKey(transformed, Head(kwargs).k)
         THEN parse_loop(SetKey(transformed, Head(kwargs).k, Head(kwargs).v), Tail(kwargs))
         ELSE [exc |-> "KeyError", val |-> <<>>]

parse_transformation(parameters, kwargs) ==
    parse_loop(ZipDict(parameters, [i \in DOMAIN parameters |-> PyStr(parameters[i])], <<>>),
               kwargs)

----------------------------------------------------------------------------
(* Parameter, Parameters *)

\* Parameter(value, lb, ub, vary): init is None, so init takes the value
Parameter(value, lb, ub, vary) ==
    [none |-> FALSE, value |-> value, lb |-> lb, ub |-> ub, vary |-> vary, init |-> value]

\* Parameter(): value=0.0, lb=-inf, ub=inf, vary=True
ParameterDefault == Parameter(0, NegInf, PosInf, TRUE)

\* None where a Parameter is expected
None == [none |-> TRUE, value |-> 0, lb |-> 0, ub |-> 0, vary |-> FALSE, init |-> 0]

\* the loop over _src.items() copies nothing
keep_existing_none(new_parameters, src) == new_parameters

\* Parameters.set_parameters(parameters, defaults) on registry src: the loop
\* over _src.items()
RECURSIVE keep_existing(_, _)
keep_existing(new_parameters, src) ==
    IF src = <<>> THEN new_parameters
    ELSE keep_existing(IF HasKey(new_parameters, Head(src).k)
                       THEN SetKey(new_parameters, Head(src).k, Head(src).v)
                       ELSE new_parameters,
                       Tail(src))

\* the new mapping is built and never stored
set_parameters_unassigned(src, parameters, defaults) == src

\* Parameters.set_parameters(parameters, defaults): the value _src takes
set_parameters(src, parameters, defaults) ==
    keep_existing(ZipDict(parameters,
                          [i \in DOMAIN defaults |->
                              IF defaults[i].none THEN ParameterDefault ELSE defaults[i]],
                          <<>>),
                  src)

\* an unknown name gets a new entry
setitem_creates(src, item, value) ==
    IF HasKey(src, item)
    THEN [i \in DOMAIN src |->
             IF src[i].k = item THEN [k |-> item, v |-> [src[i].v EXCEPT !.value = value]]
             ELSE src[i]]
    ELSE Append(src, [k |-> item, v |-> [ParameterDefault EXCEPT !.value = value]])

\* Parameters.__setitem__(item, value)
setitem(src, item, value) ==
    [i \in DOMAIN src |->
        IF src[i].k = item THEN [k |-> item, v |-> [src[i].v EXCEPT !.value = value]]
        ELSE src[i]]

\* Parameters.keys / values / fitted / lb / ub
parameters_keys(src) == [i \in DOMAIN src |-> src[i].k]
parameters_values(src) == [i \in DOMAIN src |-> src[i].v.value]
parameters_fitted(src) == [i \in DOMAIN src |-> src[i].v.vary]
parameters_lb(src) == [i \in DOMAIN src |-> src[i].v.lb]
parameters_ub(src) == [i \in DOMAIN src |-> src[i].v.ub]

----------------------------------------------------------------------------
(* Data *)

Data(x, y, transformations) == [x |-> x, y |-> y, transformations |-> transformations]

\* Data.condition_string: '|'.join(str(x) for x in transformations.values())
RECURSIVE join(_, _)
join(sep, strs) ==
    IF strs = <<>> THEN ""
    ELSE IF Len(strs) = 1 THEN strs[1]
    ELSE strs[1] \o sep \o join(sep, Tail(strs))

condition_string(data) ==
    join("|", [i \in DOMAIN data.transformations |-> str(data.transformations[i].v)])

\* Data.parameter_names: the values that are str, in order
RECURSIVE str_values(_)
str_values(od) ==
    IF od = <<>> THEN <<>>
    ELSE (IF isinstance_str(Head(od).v) THEN <<Head(od).v.s>> ELSE <<>>) \o str_values(Tail(od))

parameter_names(data) == str_values(data.transformations)

\* Data.source_parameter_names: the keys whose value is a str, in order
RECURSIVE str_keys(_)
str_keys(od) ==
    IF od = <<>> THEN <<>>
    ELSE (IF isinstance_str(Head(od).v) THEN <<Head(od).k>> ELSE <<>>) \o str_keys(Tail(od))

source_parameter_names(data) == str_keys(data.transformations)

----------------------------------------------------------------------------
(* Condition *)

\* Condition.__init__(transformations, global_dictionary); every p_reference
\* name is a key of global_dictionary when _generate_conditions constructs it
Condition(transformations, global_dictionary) ==
    LET transformed == Values(transformations)
        p_reference == str_values(transformations)
    IN [transformations |-> transformations,
        p_external  |-> [i \in DOMAIN transformed |-> isinstance_str(transformed[i])],
        p_local     |-> [i \in DOMAIN transformed |->
                            IF isinstance_str(transformed[i]) THEN 0 ELSE transformed[i].n],
        p_reference |-> p_reference,
        p_indices   |-> [j \in DOMAIN p_reference |-> Get(global_dictionary, p_reference[j])]]

\* number of True entries of a boolean mask among its first i entries
RECURSIVE count_true(_, _)
count_true(mask, i) ==
    IF i = 0 THEN 0 ELSE count_true(mask, i - 1) + (IF mask[i] THEN 1 ELSE 0)

\* p_local[p_external] += par_global[p_indices]
get_local_parameters_accumulate(condition, par_global) ==
    [i \in DOMAIN condition.p_local |->
        IF condition.p_external[i]
        THEN condition.p_local[i]
             + par_global[condition.p_indices[count_true(condition.p_external, i)] + 1]
        ELSE condition.p_local[i]]

\* Condition.get_local_parameters(par_global):
\* p_local[p_external] = par_global[p_indices]; the k-th True slot of the mask
\* takes the k-th selected value.  Returns p_local, which the condition keeps.
get_local_parameters(condition, par_global) ==
    [i \in DOMAIN condition.p_local |->
        IF condition.p_external[i]
        THEN par_global[condition.p_indices[count_true(condition.p_external, i)] + 1]
        ELSE condition.p_local[i]]

----------------------------------------------------------------------------
(* _generate_conditions *)

\* the two assertions of the loop over data_sets
assert_keys(data_set, model_parameters) ==
    Range(Keys(data_set.transformations)) = Range(model_parameters)

assert_values(data_set, parameter_lookup) ==
    \A v \in Range(Values(data_set.transformations)) :
        isinstance_str(v) /\ HasKey(parameter_lookup, v.s)

\* only the first position that matches
nonzero_equal_first(indices, condition_idx) ==
    << (CHOOSE i \in DOMAIN indices :
            /\ indices[i] = condition_idx
            /\ \A j \in 1..(i - 1) : indices[j] # condition_idx) - 1 >>

\* np.nonzero(np.equal(indices, condition_idx)): the 0-based positions, ascending
RECURSIVE nonzero_equal(_, _)
nonzero_equal(indices, condition_idx) ==
    IF indices = <<>> THEN <<>>
    ELSE nonzero_equal(SubSeq(indices, 1, Len(indices) - 1), condition_idx)
         \o (IF indices[Len(indices)] = condition_idx THEN <<Len(indices) - 1>> ELSE <<>>)

_generate_conditions(data_sets, parameter_lookup, model_parameters) ==
    IF \E i \in DOMAIN data_sets :
           ~assert_keys(data_sets[i], model_parameters)
           \/ ~assert_values(data_sets[i], parameter_lookup)
    THEN [exc |-> "AssertionError", conditions |-> <<>>, data_link |-> <<>>]
    ELSE LET str_conditions == [i \in DOMAIN data_sets |-> condition_string(data_sets[i])]
             ui == unique_idx(str_conditions)
             data_link == [c \in DOMAIN ui.uniq |-> nonzero_equal(ui.indices, c - 1)]
         IN [exc |-> "",
             conditions |-> [c \in DOMAIN data_link |->
                 Condition(data_sets[data_link[c][1] + 1].transformations, parameter_lookup)],
             data_link |-> data_link]

----------------------------------------------------------------------------
(* Model: the fitted model, a function of x with base parameters Lp and Lc *)

\* Model._parameters as built by Model.__init__(model_function, Lp=Parameter(...)):
\* the argument names after the first, a default where a keyword gave one
Model_parameters ==
    << [k |-> "Lp", v |-> Parameter(40, 0, 100, TRUE)],
       [k |-> "Lc", v |-> None] >>

\* Model.parameter_names
model_parameter_names == Keys(Model_parameters)

\* Model.get_default(key): a deep copy of the stored default
get_default(key) == Get(Model_parameters, key)

\* Model.__call__(data, parameter_vector) with model_function(x, Lp, Lc) = Lp*x + Lc
model_call(x, parameter_vector) ==
    [i \in DOMAIN x |-> parameter_vector[1] * x[i] + parameter_vector[2]]

\* Model.jacobian(independent, parameter_vector): one row per parameter, one
\* column per point; d/dLp = x, d/dLc = 1
model_jacobian(x, parameter_vector) ==
    << [i \in DOMAIN x |-> x[i]], [i \in DOMAIN x |-> 1] >>

----------------------------------------------------------------------------
(* FitObject *)

\* the tail of _build_model: what it assigns once _generate_conditions has
\* returned gc; a raise inside _generate_conditions assigns nothing
build_result(gc, src, unique_parameter_names, defaults) ==
    IF gc.exc # ""
    THEN [exc |-> gc.exc, conditions |-> <<>>, data_link |-> <<>>, parameters |-> <<>>]
    ELSE [exc |-> "", conditions |-> gc.conditions, data_link |-> gc.data_link,
          parameters |-> set_parameters(src, unique_parameter_names, defaults)]

\* defaults = [defaults[parameter_names.index(l)] for l in unique_parameter_names]
\* over defaults = [get_default(name) for data for name in source_parameter_names]
build_defaults(names, sources, unique_parameter_names) ==
    [i \in DOMAIN unique_parameter_names |->
        get_default(sources[ListIndex(names, unique_parameter_names[i]) + 1])]

build_lookup(data, src, names, sources, unique_parameter_names) ==
    build_result(_generate_conditions(data,
                     ZipDict(unique_parameter_names,
                             [i \in DOMAIN unique_parameter_names |-> i - 1], <<>>),
                     model_parameter_names),
                 src, unique_parameter_names,
                 build_defaults(names, sources, unique_parameter_names))

\* the distinct elements in last-seen order
RECURSIVE unique_last(_)
unique_last(seq) ==
    IF seq = <<>> THEN <<>>
    ELSE LET rest == unique_last(Tail(seq))
         IN IF Head(seq) \in Range(rest) THEN rest ELSE <<Head(seq)>> \o rest

\* the registry keys follow the last occurrence of each name
build_names_last_seen(data, src, names, sources) ==
    build_lookup(data, src, names, sources, unique_last(names))

build_names(data, src, names, sources) ==
    build_lookup(data, src, names, sources, unique(names))

\* FitObject._build_model on the data list and the registry
_build_model(data, src) ==
    build_names(data, src,
                Flatten([d \in DOMAIN data |-> parameter_names(data[d])]),
                Flatten([d \in DOMAIN data |-> source_parameter_names(data[d])]))

\* load_data leaves the build valid
_invalidate_build_keeps == TRUE

\* FitObject._invalidate_build: the value _built takes
_invalidate_build == FALSE

\* _check_rebuild after _build_model has returned or raised b
rebuild_result(b, conditions, data_link, src, built) ==
    IF b.exc # ""
    THEN [exc |-> b.exc, conditions |-> conditions, data_link |-> data_link,
          parameters |-> src, built |-> built]
    ELSE [exc |-> "", conditions |-> b.conditions, data_link |-> b.data_link,
          parameters |-> b.parameters, built |-> TRUE]

\* FitObject._check_rebuild: the object's fields after the call.  A raise inside
\* _build_model leaves every field as it was.
_check_rebuild(data, conditions, data_link, src, built) ==
    IF built
    THEN [exc |-> "", conditions |-> conditions, data_link |-> data_link,
          parameters |-> src, built |-> TRUE]
    ELSE rebuild_result(_build_model(data, src), conditions, data_link, src, built)

\* FitObject.n_residuals: the loop over _data
n_residuals(data) == SumSeq([d \in DOMAIN data |-> Len(data[d].x)])

Min(a, b) == IF a < b THEN a ELSE b

\* residual[start:start + Len(values)] = values
slice_assign(vector, start, values) ==
    [i \in DOMAIN vector |->
        IF i > start /\ i <= start + Len(values) THEN values[i - start] ELSE vector[i]]

\* the slice takes y_model - y
RECURSIVE residual_data_sets_sign(_, _, _, _, _)
residual_data_sets_sign(data, data_sets, k, p_local, st) ==
    IF k > Len(data_sets) THEN st
    ELSE LET data_set == data[data_sets[k] + 1]
             y_model == model_call(data_set.x, p_local)
         IN residual_data_sets_sign(data, data_sets, k + 1, p_local,
                [residual |-> slice_assign(st.residual, st.residual_idx,
                                  [i \in DOMAIN y_model |-> y_model[i] - data_set.y[i]]),
                 residual_idx |-> st.residual_idx + Len(y_model),
                 rows |-> Append(st.rows, [data |-> data_sets[k],
                                           start |-> st.residual_idx,
                                           stop |-> st.residual_idx + Len(y_model)]),
                 conditions |-> st.conditions])

\* the inner loop of _calculate_residual over one condition's data_sets, from
\* its k-th entry; st is [residual, residual_idx, rows, conditions]: rows lists, per
\* visited data index, the slice residual_idx:residual_idx + len(y_model) written
RECURSIVE residual_data_sets(_, _, _, _, _)
residual_data_sets(data, data_sets, k, p_local, st) ==
    IF k > Len(data_sets) THEN st
    ELSE LET data_set == data[data_sets[k] + 1]
             y_model == model_call(data_set.x, p_local)
         IN residual_data_sets(data, data_sets, k + 1, p_local,
                [residual |-> slice_assign(st.residual, st.residual_idx,
                                  [i \in DOMAIN y_model |-> data_set.y[i] - y_model[i]]),
                 residual_idx |-> st.residual_idx + Len(y_model),
                 rows |-> Append(st.rows, [data |-> data_sets[k],
                                           start |-> st.residual_idx,
                                           stop |-> st.residual_idx + Len(y_model)]),
                 conditions |-> st.conditions])

\* the outer loop over zip(_conditions, _data_link), from the c-th pair; the
\* visited condition keeps the local vector get_local_parameters wrote into it
RECURSIVE residual_conditions(_, _, _, _, _)
residual_conditions(data, data_link, c, parameter_values, st) ==
    IF c > Min(Len(st.conditions), Len(data_link)) THEN st
    ELSE LET p_local == get_local_parameters(st.conditions[c], parameter_values)
         IN residual_conditions(data, data_link, c + 1, parameter_values,
                residual_data_sets(data, data_link[c], 1, p_local,
                    [st EXCEPT !.conditions[c].p_local = p_local]))

\* FitObject._calculate_residual(parameter_values) on a built object; an empty
\* parameter_values stands for the registry's values
_calculate_residual(data, conditions, data_link, src, parameter_values) ==
    LET pv == IF Len(parameter_values) = 0 THEN parameters_values(src) ELSE parameter_values
    IN residual_conditions(data, data_link, 1, pv,
           [residual |-> [i \in 1..n_residuals(data) |-> 0], residual_idx |-> 0,
            rows |-> <<>>, conditions |-> conditions])

\* jacobian[start:start + n_res, p_indices] = jacobian[start:start + n_res, p_indices]
\*                                              - sensitivities
\* The right-hand side is computed from the matrix as it was; a column index that
\* occurs several times in p_indices is then assigned several times and keeps the
\* last assignment.
scatter_assign(jacobian, start, n_res, p_indices, sensitivities) ==
    [r \in DOMAIN jacobian |->
        IF r > start /\ r <= start + n_res
        THEN [g \in DOMAIN jacobian[r] |->
                 IF \E j \in DOMAIN p_indices : p_indices[j] = g - 1
                 THEN LET last == CHOOSE j \in DOMAIN p_indices :
                                      /\ p_indices[j] = g - 1
                                      /\ \A j2 \in DOMAIN p_indices :
                                             p_indices[j2] = g - 1 => j2 <= j
                      IN jacobian[r][g] - sensitivities[r - start][last]
                 ELSE jacobian[r][g]]
        ELSE jacobian[r]]

\* np.transpose of a matrix with n_cols columns
transpose(matrix, n_cols) ==
    [i \in 1..n_cols |-> [j \in DOMAIN matrix |-> matrix[j][i]]]

\* residual_idx advances by one row per record
RECURSIVE jacobian_data_sets_one_row(_, _, _, _, _, _)
jacobian_data_sets_one_row(data, data_sets, k, p_local, p_indices, st) ==
    IF k > Len(data_sets) \/ st.exc # "" THEN st
    ELSE LET data_set == data[data_sets[k] + 1]
             sensitivities == transpose(model_jacobian(data_set.x, p_local), Len(data_set.x))
             n_res == Len(sensitivities)
         IN IF Len(p_indices) # Len(p_local)
            THEN [st EXCEPT !.exc = "ValueError"]
            ELSE jacobian_data_sets_one_row(data, data_sets, k + 1, p_local, p_indices,
                    [exc |-> "",
                     jacobian |-> scatter_assign(st.jacobian, st.residual_idx, n_res,
                                                 p_indices, sensitivities),
                     residual_idx |-> st.residual_idx + 1,
                     rows |-> Append(st.rows, [data |-> data_sets[k],
                                               start |-> st.residual_idx,
                                               stop |-> st.residual_idx + n_res]),
                     conditions |-> st.conditions])

\* the inner loop of _evaluate_jacobian over one condition's data_sets; st is
\* [exc, jacobian, residual_idx, rows, conditions].  The two sides of the assignment have
\* len(p_indices) and len(p_local) columns: numpy raises ValueError when they
\* differ (the model has two base parameters, so no broadcast applies).
RECURSIVE jacobian_data_sets(_, _, _, _, _, _)
jacobian_data_sets(data, data_sets, k, p_local, p_indices, st) ==
    IF k > Len(data_sets) \/ st.exc # "" THEN st
    ELSE LET data_set == data[data_sets[k] + 1]
             sensitivities == transpose(model_jacobian(data_set.x, p_local), Len(data_set.x))
             n_res == Len(sensitivities)
         IN IF Len(p_indices) # Len(p_local)
            THEN [st EXCEPT !.exc = "ValueError"]
            ELSE jacobian_data_sets(data, data_sets, k + 1, p_local, p_indices,
                    [exc |-> "",
                     jacobian |-> scatter_assign(st.jacobian, st.residual_idx, n_res,
                                                 p_indices, sensitivities),
                     residual_idx |-> st.residual_idx + n_res,
                     rows |-> Append(st.rows, [data |-> data_sets[k],
                                               start |-> st.residual_idx,
                                               stop |-> st.residual_idx + n_res]),
                     conditions |-> st.conditions])

RECURSIVE jacobian_conditions(_, _, _, _, _)
jacobian_conditions(data, data_link, c, parameter_values, st) ==
    IF c > Min(Len(st.conditions), Len(data_link)) \/ st.exc # "" THEN st
    ELSE LET p_local == get_local_parameters(st.conditions[c], parameter_values)
         IN jacobian_conditions(data, data_link, c + 1, parameter_values,
                jacobian_data_sets(data, data_link[c], 1, p_local,
                    st.conditions[c].p_indices,
                    [st EXCEPT !.conditions[c].p_local = p_local]))

\* FitObject._evaluate_jacobian(parameter_values) on a built object
_evaluate_jacobian(data, conditions, data_link, src, parameter_values) ==
    LET pv == IF Len(parameter_values) = 0 THEN parameters_values(src) ELSE parameter_values
    IN jacobian_conditions(data, data_link, 1, pv,
           [exc |-> "",
            jacobian |-> [r \in 1..n_residuals(data) |-> [g \in 1..Len(src) |-> 0]],
            residual_idx |-> 0, rows |-> <<>>, conditions |-> conditions])

\* the mask is not applied
compress_all(vector, mask) == vector

\* vector[mask]: the entries of vector at the True slots of mask, in order
RECURSIVE compress(_, _)
compress(vector, mask) ==
    IF mask = <<>> THEN <<>>
    ELSE (IF Head(mask) THEN <<Head(vector)>> ELSE <<>>) \o compress(Tail(vector), Tail(mask))

\* the values go to the first positions, whatever the mask
mask_assign_prefix(vector, mask, values) ==
    [i \in DOMAIN vector |-> IF i <= Len(values) THEN values[i] ELSE vector[i]]

\* vector[mask] = values: the k-th True position takes the k-th value
mask_assign(vector, mask, values) ==
    [i \in DOMAIN vector |-> IF mask[i] THEN values[count_true(mask, i)] ELSE vector[i]]

\* the loop "for name, value in zip(parameter_names, parameter_vector):
\*               self.parameters[name] = value" of FitObject.fit
RECURSIVE write_back(_, _, _)
write_back(src, names, values) ==
    IF names = <<>> \/ values = <<>> THEN src
    ELSE write_back(setitem(src, Head(names), Head(values)), Tail(names), Tail(values))

----------------------------------------------------------------------------
(* Inputs *)

\* the (x, y) arrays a caller loads
Curves == { [x |-> <<2>>, y |-> <<9>>], [x |-> <<3, 5>>, y |-> <<1, 4>>] }

\* substitution keywords: a base parameter and a name the model lacks
KwargKeys == {"Lc", "Zz"}
\* substitution values: a new free name, the name of a base parameter, a number
KwargValues == {PyStr("Lc_b"), PyStr("Lp"), PyFloat(14)}

\* **kwargs of one load_data call: no keyword or one keyword
KwargsSet == {<<>>} \cup {<< [k |-> key, v |-> value] >> : key \in KwargKeys, value \in KwargValues}

\* a global parameter vector a caller (the solver) passes: n distinct values; the
\* empty vector stands for "use the registry's values"
TrialVector(n) == [i \in 1..n |-> 10 + i]

\* what the least-squares solver hands back for n free parameters
SolverResult(n) == [i \in 1..n |-> 7]

\* result.x of a solver run for n free parameters, with n distinct entries
ResultX(n) == [i \in 1..n |-> 6 + i]

----------------------------------------------------------------------------
(* State machine of one FitObject (fdfit.py) *)

\* no model object
NoModel == [kind |-> "none"]

\* no fit() call is in progress
NoFrame == [pc |-> "idle", parameter_vector |-> <<>>, fitted |-> <<>>, lb |-> <<>>,
            ub |-> <<>>, entry |-> <<>>, x0 |-> <<>>, bounds |-> <<>>]

NoCall == [op |-> "__init__", parameters |-> <<>>, kwargs |-> <<>>, x |-> <<>>, y |-> <<>>,
           parameter_values |-> <<>>, fit_object |-> "", solver |-> "", calls |-> 0]
Returned(val) == [exc |-> "", val |-> val]
Raised(exc) == [exc |-> exc, val |-> <<>>]

\* FitObject.__init__(model); _data_link starts as None, here the empty list
InitFitObject ==
    /\ _data = <<>>
    /\ _conditions = <<>>
    /\ _data_link = <<>>
    /\ _parameters = <<>>
    /\ _built = _invalidate_build

\* FitObject.load_data(x, y, **kwargs) with x, y of curve
load_data(curve, kwargs) ==
    LET parameter_list == parse_transformation(model_parameter_names, kwargs)
    IN /\ object = "FitObject"
       /\ Len(_data) < MaxData
       /\ call' = [NoCall EXCEPT !.op = "load_data", !.kwargs = kwargs,
                                 !.x = curve.x, !.y = curve.y]
       /\ _built' = _invalidate_build
       /\ IF parameter_list.exc # ""
          THEN /\ ret' = Raised(parameter_list.exc)
               /\ UNCHANGED _data
          ELSE /\ ret' = Returned(<<>>)
               /\ _data' = Append(_data, Data(curve.x, curve.y, parameter_list.val))
       /\ UNCHANGED <<object, objects, model, frame, _conditions, _data_link, _parameters, model_vars>>

LoadData == \E curve \in Curves, kwargs \in KwargsSet : load_data(curve, kwargs)

\* the fields _check_rebuild leaves behind
Rebuilt == _check_rebuild(_data, _conditions, _data_link, _parameters, _built)

\* a call that starts with _check_rebuild, which left rb behind: it raises what
\* _check_rebuild raised, or goes on to raise or return result and to leave the
\* conditions and the registry as given
AfterRebuild(op, parameter_values, rb, result, conditions, parameters) ==
    /\ object = "FitObject"
    /\ call' = [NoCall EXCEPT !.op = op, !.parameter_values = parameter_values]
    /\ _data_link' = rb.data_link
    /\ _built' = rb.built
    /\ ret' = IF rb.exc # "" THEN Raised(rb.exc) ELSE result
    /\ _conditions' = IF rb.exc # "" THEN rb.conditions ELSE conditions
    /\ _parameters' = IF rb.exc # "" THEN rb.parameters ELSE parameters
    /\ UNCHANGED <<object, objects, model, frame, _data, model_vars>>

parameters_get(rb) ==
    AfterRebuild("parameters", <<>>, rb, Returned(rb.parameters), rb.conditions, rb.parameters)

\* FitObject.parameters
GetParameters == parameters_get(Rebuilt)

n_parameters_get(rb) ==
    AfterRebuild("n_parameters", <<>>, rb, Returned(<<Len(rb.parameters)>>),
                 rb.conditions, rb.parameters)

\* FitObject.n_parameters
NParameters == n_parameters_get(Rebuilt)

n_residuals_get(rb) ==
    AfterRebuild("n_residuals", <<>>, rb, Returned(<<n_residuals(_data)>>),
                 rb.conditions, rb.parameters)

\* FitObject.n_residuals
NResiduals == n_residuals_get(Rebuilt)

residual_return(parameter_values, rb, r) ==
    AfterRebuild("_calculate_residual", parameter_values, rb,
                 Returned(<<r.residual, r.rows>>), r.conditions, rb.parameters)

residual_call(parameter_values, rb) ==
    residual_return(parameter_values, rb,
        IF rb.exc # "" THEN <<>>
        ELSE _calculate_residual(_data, rb.conditions, rb.data_link, rb.parameters,
                                 parameter_values))

residual_args(use_trial, rb) ==
    residual_call(IF use_trial THEN TrialVector(Len(rb.parameters)) ELSE <<>>, rb)

\* FitObject._calculate_residual(parameter_values)
CalculateResidual == \E use_trial \in BOOLEAN : residual_args(use_trial, Rebuilt)

jacobian_return(parameter_values, rb, r) ==
    AfterRebuild("_evaluate_jacobian", parameter_values, rb,
                 IF r.exc # "" THEN Raised(r.exc) ELSE Returned(<<r.jacobian, r.rows>>),
                 r.conditions, rb.parameters)

jacobian_call(parameter_values, rb) ==
    jacobian_return(parameter_values, rb,
        IF rb.exc # "" THEN <<>>
        ELSE _evaluate_jacobian(_data, rb.conditions, rb.data_link, rb.parameters,
                                parameter_values))

jacobian_args(use_trial, rb) ==
    jacobian_call(IF use_trial THEN TrialVector(Len(rb.parameters)) ELSE <<>>, rb)

\* FitObject._evaluate_jacobian(parameter_values)
EvaluateJacobian == \E use_trial \in BOOLEAN : jacobian_args(use_trial, Rebuilt)

\* the end of fit(): the solver raised, or returned result.x, which
\* parameter_vector[fitted] = result.x turned into trial; r is what the last
\* call of the residual callback left behind
fit_return(solved, rb, trial, r) ==
    AfterRebuild("fit", <<>>, rb,
                 IF solved THEN Returned(<<>>) ELSE Raised("SolverError"),
                 r.conditions,
                 IF solved THEN write_back(rb.parameters, parameters_keys(rb.parameters), trial)
                 ELSE rb.parameters)

fit_solve(solved, rb, trial) ==
    fit_return(solved, rb, trial,
        IF rb.exc # "" THEN <<>>
        ELSE _calculate_residual(_data, rb.conditions, rb.data_link, rb.parameters, trial))

fit_start(solved, rb, parameter_vector, fitted) ==
    fit_solve(solved, rb,
        mask_assign(parameter_vector, fitted, SolverResult(count_true(fitted, Len(fitted)))))

fit_call(solved, rb) ==
    fit_start(solved, rb, parameters_values(rb.parameters), parameters_fitted(rb.parameters))

\* FitObject.fit(): the solver (scipy.optimize.least_squares) either raises or
\* returns result.x; before it returns it has called the residual callback on
\* a trial vector, which leaves each condition localized at that vector
Fit == \E solved \in BOOLEAN : fit_call(solved, Rebuilt)

\* what a user assigns: fit.parameters[item] = value
ItemNames == {"Lp"}
ItemValues == {5}

setitem_call(item, value, rb) ==
    /\ object = "FitObject"
    /\ call' = [NoCall EXCEPT !.op = "parameters.__setitem__", !.parameters = <<item>>,
                              !.parameter_values = <<value>>]
    /\ _data_link' = rb.data_link
    /\ _built' = rb.built
    /\ _conditions' = rb.conditions
    /\ ret' = IF rb.exc # "" THEN Raised(rb.exc) ELSE Returned(<<>>)
    /\ _parameters' = IF rb.exc # "" THEN rb.parameters
                      ELSE setitem(rb.parameters, item, value)
    /\ UNCHANGED <<object, objects, model, frame, _data, model_vars>>

\* fit.parameters[item] = value: FitObject.parameters, then Parameters.__setitem__
SetItem == \E item \in ItemNames, value \in ItemValues : setitem_call(item, value, Rebuilt)

----------------------------------------------------------------------------
(* FitObject.fit() step by step: the solver calls back into the fit object *)

\* Parameters.__getitem__(item): the Parameter, or None for an unknown name
getitem(src, item) == IF HasKey(src, item) THEN Get(src, item) ELSE None

\* names of parameters a user fixes: fit.parameters[item].vary = False
FixNames == {"Lp", "Lc"}

setvary_call(item, rb) ==
    /\ object = "FitObject"
    /\ frame.pc = "idle"
    /\ call' = [NoCall EXCEPT !.op = "parameters.__getitem__.vary", !.parameters = <<item>>]
    /\ _data_link' = rb.data_link
    /\ _built' = rb.built
    /\ _conditions' = rb.conditions
    /\ ret' = IF rb.exc # "" THEN Raised(rb.exc)
              ELSE IF getitem(rb.parameters, item).none THEN Raised("AttributeError")
              ELSE Returned(<<>>)
    /\ _parameters' = [i \in DOMAIN rb.parameters |->
                          IF rb.exc = "" /\ rb.parameters[i].k = item
                          THEN [k |-> item, v |-> [rb.parameters[i].v EXCEPT !.vary = FALSE]]
                          ELSE rb.parameters[i]]
    /\ UNCHANGED <<object, objects, model, frame, _data, model_vars>>

\* fit.parameters[item].vary = False: FitObject.parameters, Parameters.__getitem__,
\* then the attribute of the Parameter (of None for an unknown name)
SetVary == \E item \in FixNames : setvary_call(item, Rebuilt)

\* the head of fit(): parameter_vector, fitted, lb, ub read from self.parameters,
\* then optim.least_squares is entered; entry is the registry these reads saw
fit_begin(rb) ==
    /\ object = "FitObject"
    /\ frame.pc = "idle"
    /\ call' = [NoCall EXCEPT !.op = "fit.least_squares"]
    /\ _data_link' = rb.data_link
    /\ _built' = rb.built
    /\ _conditions' = rb.conditions
    /\ _parameters' = rb.parameters
    /\ ret' = IF rb.exc # "" THEN Raised(rb.exc) ELSE Returned(<<>>)
    /\ frame' = IF rb.exc # "" THEN NoFrame
                ELSE [pc |-> "solving",
                      parameter_vector |-> parameters_values(rb.parameters),
                      fitted |-> parameters_fitted(rb.parameters),
                      lb |-> parameters_lb(rb.parameters),
                      ub |-> parameters_ub(rb.parameters),
                      entry |-> rb.parameters,
                      x0 |-> compress(parameters_values(rb.parameters),
                                      parameters_fitted(rb.parameters)),
                      bounds |-> << compress(parameters_lb(rb.parameters),
                                             parameters_fitted(rb.parameters)),
                                    compress(parameters_ub(rb.parameters),
                                             parameters_fitted(rb.parameters)) >>]
    /\ UNCHANGED <<object, objects, model, _data, model_vars>>

FitBegin == fit_begin(Rebuilt)

\* trial vectors the solver passes to a callback: one entry per free parameter
TrialFree(n) == { [i \in 1..n |-> 10 + i], [i \in 1..n |-> 20 + i] }

\* number of free parameters of the fit in progress
n_fitted == count_true(frame.fitted, Len(frame.fitted))

\* a callback of fit(): parameter_vector[fitted] = parameters, then the call on
\* the fit object, which starts with _check_rebuild and leaves rb behind
callback_step(op, parameters, parameter_vector, rb, result, conditions) ==
    /\ object = "FitObject"
    /\ frame.pc = "solving"
    /\ frame' = [frame EXCEPT !.parameter_vector = parameter_vector]
    /\ call' = [NoCall EXCEPT !.op = op, !.parameter_values = parameters]
    /\ _data_link' = rb.data_link
    /\ _built' = rb.built
    /\ _parameters' = rb.parameters
    /\ ret' = IF rb.exc # "" THEN Raised(rb.exc) ELSE result
    /\ _conditions' = IF rb.exc # "" THEN rb.conditions ELSE conditions
    /\ UNCHANGED <<object, objects, model, _data, model_vars>>

callback_residual_return(parameters, parameter_vector, rb, r) ==
    callback_step("fit.residual", parameters, parameter_vector, rb,
                  Returned(<<r.residual, r.rows>>), r.conditions)

callback_residual(parameters, parameter_vector, rb) ==
    callback_residual_return(parameters, parameter_vector, rb,
        IF rb.exc # "" THEN <<>>
        ELSE _calculate_residual(_data, rb.conditions, rb.data_link, rb.parameters,
                                 parameter_vector))

\* residual(parameters) of fit()
FitResidual ==
    \E parameters \in TrialFree(n_fitted) :
        callback_residual(parameters,
                          mask_assign(frame.parameter_vector, frame.fitted, parameters),
                          Rebuilt)

\* jacobian[:, fitted]: the columns of the free parameters
columns(matrix, mask) ==
    [r \in DOMAIN matrix |->
        [c \in 1..count_true(mask, Len(mask)) |->
            matrix[r][CHOOSE g \in DOMAIN mask : mask[g] /\ count_true(mask, g) = c]]]

callback_jacobian_return(parameters, parameter_vector, rb, r) ==
    callback_step("fit.jacobian", parameters, parameter_vector, rb,
                  IF r.exc # "" THEN Raised(r.exc)
                  ELSE Returned(<<columns(r.jacobian, frame.fitted), r.rows>>),
                  r.conditions)

callback_jacobian(parameters, parameter_vector, rb) ==
    callback_jacobian_return(parameters, parameter_vector, rb,
        IF rb.exc # "" THEN <<>>
        ELSE _evaluate_jacobian(_data, rb.conditions, rb.data_link, rb.parameters,
                                parameter_vector))

\* jacobian(parameters) of fit()
FitJacobian ==
    \E parameters \in TrialFree(n_fitted) :
        callback_jacobian(parameters,
                          mask_assign(frame.parameter_vector, frame.fitted, parameters),
                          Rebuilt)

\* the write-back runs whether or not the solver returned
fit_finish_always(solved, src, names, parameter_vector) ==
    write_back(src, names, parameter_vector)

\* the tail of fit(): reached only when least_squares returned
fit_finish(solved, src, names, parameter_vector) ==
    IF solved THEN write_back(src, names, parameter_vector) ELSE src

fit_end(solved, x, parameter_vector) ==
    /\ object = "FitObject"
    /\ frame.pc = "solving"
    /\ call' = [NoCall EXCEPT !.op = "fit", !.parameter_values = IF solved THEN x ELSE <<>>]
    /\ ret' = IF solved THEN Returned(<<>>) ELSE Raised("SolverError")
    /\ _parameters' = fit_finish(solved, _parameters, parameters_keys(_parameters),
                                 parameter_vector)
    /\ frame' = NoFrame
    /\ UNCHANGED <<object, objects, model, _data, _conditions, _data_link, _built, model_vars>>

\* least_squares raises, or returns result.x and fit() writes the values back
FitEnd ==
    \E solved \in BOOLEAN :
        fit_end(solved, ResultX(n_fitted),
                mask_assign(frame.parameter_vector, frame.fitted, ResultX(n_fitted)))

\* load_data between fits
FitLoadData == frame.pc = "idle" /\ LoadData

----------------------------------------------------------------------------
(* State machine of one Model (fitting/model.py): the build flag *)

\* fit objects a Model can be built against
FitObjects == {"F1", "F2"}

\* values of Model._built
PyNone == [kind |-> "None", id |-> ""]
PyFalse == [kind |-> "bool", id |-> ""]
PyFitObject(f) == [kind |-> "FitObject", id |-> f]

\* Model.__init__: _built = None
InitModel ==
    /\ model_data = <<>>
    /\ model_conditions = <<>>
    /\ model_data_link = <<>>
    /\ model_built = PyNone

\* Model._invalidate_build: the value _built takes
model_invalidate_build == PyFalse

\* Model.built_against(fit_object): _built == fit_object; None and False equal
\* no fit object
built_against(built, fit_object) == built.kind = "FitObject" /\ built.id = fit_object

\* fitdata.FitData(name, x, y, transformations)
FitData(name, x, y, transformations) ==
    [name |-> name, x |-> x, y |-> y, transformations |-> transformations]

\* detail.link_functions.generate_conditions(data_sets, parameter_lookup, model_parameters)
generate_conditions(data_sets, parameter_lookup, model_parameters) ==
    IF \E i \in DOMAIN data_sets :
           \/ Range(Keys(data_sets[i].transformations)) # Range(model_parameters)
           \/ \E name \in Range(parameter_names(data_sets[i])) : ~HasKey(parameter_lookup, name)
    THEN [exc |-> "AssertionError", conditions |-> <<>>, data_link |-> <<>>]
    ELSE LET ui == unique_idx([i \in DOMAIN data_sets |-> condition_string(data_sets[i])])
             data_link == [c \in DOMAIN ui.uniq |-> nonzero_equal(ui.indices, c - 1)]
         IN [exc |-> "",
             conditions |-> [c \in DOMAIN data_link |->
                 Condition(data_sets[data_link[c][1] + 1].transformations, parameter_lookup)],
             data_link |-> data_link]

\* Model._transformed_parameters
_transformed_parameters(data) ==
    IF data # <<>> THEN Flatten([d \in DOMAIN data |-> parameter_names(data[d])])
    ELSE model_parameter_names

\* Model.load_data(x, y, name="", **kwargs)
ModelLoadData ==
    \E curve \in Curves, kwargs \in KwargsSet :
        LET parameter_list == parse_transformation(model_parameter_names, kwargs)
        IN /\ object = "Model"
           /\ Len(model_data) < MaxData
           /\ call' = [NoCall EXCEPT !.op = "Model.load_data", !.kwargs = kwargs,
                                     !.x = curve.x, !.y = curve.y]
           /\ model_built' = model_invalidate_build
           /\ IF parameter_list.exc # ""
              THEN /\ ret' = Raised(parameter_list.exc)
                   /\ UNCHANGED model_data
              ELSE /\ ret' = Returned(<<>>)
                   /\ model_data' = Append(model_data,
                                           FitData("", curve.x, curve.y, parameter_list.val))
           /\ UNCHANGED <<object, objects, model, frame, fit_vars, model_conditions, model_data_link>>

\* Model._build_model(parameter_lookup, fit_object); the fit object passes the
\* lookup of the distinct transformed parameter names
ModelBuildModel ==
    \E fit_object \in FitObjects :
        LET names == unique(_transformed_parameters(model_data))
            parameter_lookup == ZipDict(names, [i \in DOMAIN names |-> i - 1], <<>>)
            gc == generate_conditions(model_data, parameter_lookup, model_parameter_names)
        IN /\ object = "Model"
           /\ call' = [NoCall EXCEPT !.op = "Model._build_model", !.fit_object = fit_object]
           /\ IF gc.exc # ""
              THEN /\ ret' = Raised(gc.exc)
                   /\ UNCHANGED <<model_conditions, model_data_link, model_built>>
              ELSE /\ ret' = Returned(<<>>)
                   /\ model_conditions' = gc.conditions
                   /\ model_data_link' = gc.data_link
                   /\ model_built' = PyFitObject(fit_object)
           /\ UNCHANGED <<object, objects, model, frame, fit_vars, model_data>>

----------------------------------------------------------------------------
(* Direct calls of parse_transformation(parameters, **kwargs) *)

ParseNames == {"Lp", "Lc", "St"}
ParseKeys == {"Lp", "Lc", "Zz"}
ParseValues == {PyStr("Lc_b"), PyFloat(14)}

\* lists without repetition: the argument names of a model function
ParameterLists ==
    UNION { {l \in [1..n -> ParseNames] : \A i, j \in 1..n : i # j => l[i] # l[j]} :
            n \in 0..Cardinality(ParseNames) }

\* keyword arguments in call order; a keyword occurs once
KeywordLists ==
    UNION { {kw \in [1..n -> [k : ParseKeys, v : ParseValues]] :
                \A i, j \in 1..n : i # j => kw[i].k # kw[j].k} :
            n \in 0..MaxKwargs }

InitParse ==
    /\ object = "parse_transformation"
    /\ InitFitObject
    /\ InitModel
    /\ model = NoModel
    /\ frame = NoFrame
    /\ objects = <<>>
    /\ \E parameters \in ParameterLists, kwargs \in KeywordLists :
           call = [NoCall EXCEPT !.op = "arguments", !.parameters = parameters,
                                 !.kwargs = kwargs]
    /\ ret = Returned(<<>>)

parse_return(result) ==
    /\ object = "parse_transformation"
    /\ call.op = "arguments"
    /\ call' = [call EXCEPT !.op = "parse_transformation"]
    /\ ret' = IF result.exc # "" THEN Raised(result.exc) ELSE Returned(result.val)
    /\ UNCHANGED <<object, objects, model, frame, fit_vars, model_vars>>

ParseTransformation == parse_return(parse_transformation(call.parameters, call.kwargs))

SpecParse == InitParse /\ [][ParseTransformation]_vars

----------------------------------------------------------------------------
(* Specifications: calls on a FitObject, or calls on a Model *)

Init ==
    /\ object \in {"FitObject", "Model"}
    /\ InitFitObject
    /\ InitModel
    /\ model = NoModel
    /\ frame = NoFrame
    /\ objects = <<>>
    /\ call = NoCall
    /\ ret = Returned(<<>>)

\* loading data and reading
NextReads ==
    \/ LoadData
    \/ GetParameters
    \/ NParameters
    \/ NResiduals
    \/ CalculateResidual
    \/ EvaluateJacobian
    \/ ModelLoadData
    \/ ModelBuildModel

SpecReads == Init /\ [][NextReads]_vars

\* loading data, reading and fitting
Next ==
    \/ LoadData
    \/ GetParameters
    \/ NParameters
    \/ NResiduals
    \/ CalculateResidual
    \/ EvaluateJacobian
    \/ Fit
    \/ SetItem
    \/ ModelLoadData
    \/ ModelBuildModel

Spec == Init /\ [][Next]_vars

\* calls on a FitObject only
InitFit == Init /\ object = "FitObject"

\* substitutions whose values come close to one another as text: names that
\* hold the separator of condition_string, and a number next to the name
\* that reads like it
SignatureKwargs ==
    { <<>>,
      << [k |-> "Lc", v |-> PyStr("z|Lc")] >>,
      << [k |-> "Lp", v |-> PyStr("Lp|z")] >>,
      << [k |-> "Lc", v |-> PyStr("Lc_b")] >>,
      << [k |-> "Lc", v |-> PyStr("14.0")] >>,
      << [k |-> "Lc", v |-> PyFloat(14)] >> }

SignatureLoadData ==
    \E curve \in Curves, kwargs \in SignatureKwargs : load_data(curve, kwargs)

NextSignature ==
    \/ SignatureLoadData
    \/ NParameters
    \/ CalculateResidual

\* a fit object loaded with such substitutions
SpecSignature == InitFit /\ [][NextSignature]_vars

\* names and values of fit.parameters[item] = value and of fit.parameters[item];
\* Zz is never a key of the registry, Lc_b is one once such data is loaded
RegistryNames == {"Lp", "Lc_b", "Zz"}
RegistryValues == {5, 6}

RegistrySetItem ==
    \E item \in RegistryNames, value \in RegistryValues : setitem_call(item, value, Rebuilt)

getitem_call(item, rb) ==
    /\ object = "FitObject"
    /\ call' = [NoCall EXCEPT !.op = "parameters.__getitem__", !.parameters = <<item>>]
    /\ _data_link' = rb.data_link
    /\ _built' = rb.built
    /\ _conditions' = rb.conditions
    /\ _parameters' = rb.parameters
    /\ ret' = IF rb.exc # "" THEN Raised(rb.exc)
              ELSE Returned(<<getitem(rb.parameters, item)>>)
    /\ UNCHANGED <<object, objects, model, frame, _data, model_vars>>

\* fit.parameters[item]: FitObject.parameters, then Parameters.__getitem__
RegistryGetItem == \E item \in RegistryNames : getitem_call(item, Rebuilt)

NextRegistry ==
    \/ LoadData
    \/ RegistrySetItem
    \/ RegistryGetItem

\* a fit object whose registry is read and assigned by name
SpecRegistry == InitFit /\ [][NextRegistry]_vars

\* a fit object whose fits are followed callback by callback
NextFit ==
    \/ FitLoadData
    \/ SetVary
    \/ FitBegin
    \/ FitResidual
    \/ FitJacobian
    \/ FitEnd

SpecFit == InitFit /\ [][NextFit]_vars

\* substitutions that tell where the default of a name comes from: both base
\* parameters renamed to one name, Lp renamed to the name of Lc and Lc to the
\* name of Lp, Lc renamed, and a base parameter fixed to a number
DefaultsKwargs ==
    { <<>>,
      << [k |-> "Lp", v |-> PyStr("z")], [k |-> "Lc", v |-> PyStr("z")] >>,
      << [k |-> "Lp", v |-> PyStr("Lc")] >>,
      << [k |-> "Lc", v |-> PyStr("Lp")] >>,
      << [k |-> "Lc", v |-> PyStr("Lc_b")] >>,
      << [k |-> "Lp", v |-> PyFloat(14)] >> }

DefaultsLoadData ==
    \E curve \in Curves, kwargs \in DefaultsKwargs : load_data(curve, kwargs)

NextDefaults ==
    \/ DefaultsLoadData
    \/ GetParameters
    \/ RegistrySetItem

\* a fit object whose data renames and fixes base parameters in these ways
SpecDefaults == InitFit /\ [][NextDefaults]_vars

\* a Condition constructed on its own: base parameters of a three-parameter
\* model, each a free name or a number
LocalKeys == <<"Lp", "Lc", "St">>
LocalValues == {PyStr("Lp"), PyStr("Lc"), PyStr("Lc_b"), PyFloat(14), PyFloat(3)}
LocalTransformations ==
    { [i \in DOMAIN LocalKeys |-> [k |-> LocalKeys[i], v |-> values[i]]] :
          values \in [DOMAIN LocalKeys -> LocalValues] }

\* the registry keys the global dictionary numbers, in two orders
GlobalOrders == { <<"Lp", "Lc", "Lc_b">>, <<"Lc_b", "Lp", "Lc">> }

\* global parameter vectors
GlobalVectors == { <<11, 12, 13>>, <<21, 22, 23>> }

\* Condition(transformations, parameter_lookup) with the lookup _build_model
\* makes of the registry keys
InitCondition ==
    /\ object = "Condition"
    /\ InitModel
    /\ model = NoModel
    /\ frame = NoFrame
    /\ objects = <<>>
    /\ call = NoCall
    /\ ret = Returned(<<>>)
    /\ _data = <<>>
    /\ _data_link = <<>>
    /\ _built = _invalidate_build
    /\ \E transformations \in LocalTransformations, names \in GlobalOrders :
           /\ _parameters = ZipDict(names, [i \in DOMAIN names |-> ParameterDefault], <<>>)
           /\ _conditions = << Condition(transformations,
                                         ZipDict(names, [i \in DOMAIN names |-> i - 1], <<>>)) >>

\* condition.get_local_parameters(par_global): p_local is written in place and
\* returned; frame keeps the vector of the call before
get_local_parameters_call(par_global, p_local) ==
    /\ object = "Condition"
    /\ call' = [NoCall EXCEPT !.op = "get_local_parameters", !.parameter_values = par_global]
    /\ frame' = [NoFrame EXCEPT !.parameter_vector = call.parameter_values]
    /\ _conditions' = [_conditions EXCEPT ![1].p_local = p_local]
    /\ ret' = Returned(p_local)
    /\ UNCHANGED <<object, objects, model, _data, _data_link, _parameters, _built, model_vars>>

GetLocalParameters ==
    \E par_global \in GlobalVectors :
        get_local_parameters_call(par_global, get_local_parameters(_conditions[1], par_global))

\* a Condition that is asked for local vectors again and again
SpecLocalize == InitCondition /\ [][GetLocalParameters]_vars

----------------------------------------------------------------------------
(* The registry followed object by object.  A Parameter object is an entry  *)
(* of objects and is known by its position; the registry and the model's   *)
(* _parameters hold references.  Two names that hold one reference share   *)
(* every write.                                                             *)

\* a reference to the object at position id, and None
Ref(id) == [none |-> FALSE, id |-> id]
NoRef == [none |-> TRUE, id |-> 0]

\* the objects Model.__init__ stores as defaults: one per keyword that gave a
\* Parameter, in base-parameter order
Model_objects == SelectSeq(Values(Model_parameters), LAMBDA v : ~v.none)

\* Model._parameters by reference: base parameter name -> stored object or None
RECURSIVE stored_references(_, _)
stored_references(parameters, n) ==
    IF parameters = <<>> THEN <<>>
    ELSE IF Head(parameters).v.none
         THEN <<[k |-> Head(parameters).k, v |-> NoRef]>> \o stored_references(Tail(parameters), n)
         ELSE <<[k |-> Head(parameters).k, v |-> Ref(n + 1)]>>
              \o stored_references(Tail(parameters), n + 1)

Model_references == stored_references(Model_parameters, 0)

\* deepcopy(x): None, or a new object with the fields of x
deepcopy(ref, heap) ==
    IF ref.none THEN [ref |-> NoRef, heap |-> heap]
    ELSE [ref |-> Ref(Len(heap) + 1), heap |-> Append(heap, heap[ref.id])]

\* the stored object itself is handed out
get_default_stored(key, heap) == [ref |-> Get(Model_references, key), heap |-> heap]

\* Model.get_default(key): deepcopy(self._parameters[key])
get_default_object(key, heap) == deepcopy(Get(Model_references, key), heap)

\* [self.model.get_default(name) for data in self._data
\*                               for name in data.source_parameter_names]
RECURSIVE defaults_objects(_, _, _)
defaults_objects(sources, heap, refs) ==
    IF sources = <<>> THEN [refs |-> refs, heap |-> heap]
    ELSE LET default == get_default_object(Head(sources), heap)
         IN defaults_objects(Tail(sources), default.heap, Append(refs, default.ref))

\* [Parameter() if x is None else x for x in defaults]
RECURSIVE new_objects(_, _, _)
new_objects(defaults, heap, refs) ==
    IF defaults = <<>> THEN [refs |-> refs, heap |-> heap]
    ELSE IF Head(defaults).none
         THEN new_objects(Tail(defaults), Append(heap, ParameterDefault),
                          Append(refs, Ref(Len(heap) + 1)))
         ELSE new_objects(Tail(defaults), heap, Append(refs, Head(defaults)))

\* Parameters.set_parameters(parameters, defaults) by reference
set_parameters_objects(src, parameters, made) ==
    [parameters |-> keep_existing(ZipDict(parameters, made.refs, <<>>), src),
     heap |-> made.heap]

\* FitObject._build_model by reference: the defaults are copied, the conditions
\* generated, the registry set
build_objects(data, src, names, unique_parameter_names, gc, defaults) ==
    IF gc.exc # ""
    THEN [exc |-> gc.exc, parameters |-> src, heap |-> defaults.heap,
          conditions |-> <<>>, data_link |-> <<>>]
    ELSE [exc |-> "", conditions |-> gc.conditions, data_link |-> gc.data_link]
         @@ set_parameters_objects(src, unique_parameter_names,
                new_objects([i \in DOMAIN unique_parameter_names |->
                                defaults.refs[ListIndex(names, unique_parameter_names[i]) + 1]],
                            defaults.heap, <<>>))

_build_model_objects(data, src, heap, names, unique_parameter_names) ==
    build_objects(data, src, names, unique_parameter_names,
        _generate_conditions(data,
            ZipDict(unique_parameter_names,
                    [i \in DOMAIN unique_parameter_names |-> i - 1], <<>>),
            model_parameter_names),
        defaults_objects(Flatten([d \in DOMAIN data |-> source_parameter_names(data[d])]),
                         heap, <<>>))

\* FitObject._check_rebuild by reference
_check_rebuild_objects(data, conditions, data_link, src, built, heap) ==
    IF built
    THEN [exc |-> "", conditions |-> conditions, data_link |-> data_link,
          parameters |-> src, built |-> TRUE, heap |-> heap]
    ELSE LET names == Flatten([d \in DOMAIN data |-> parameter_names(data[d])])
             b == _build_model_objects(data, src, heap, names, unique(names))
         IN IF b.exc # ""
            THEN [exc |-> b.exc, conditions |-> conditions, data_link |-> data_link,
                  parameters |-> src, built |-> built, heap |-> b.heap]
            ELSE [exc |-> "", conditions |-> b.conditions, data_link |-> b.data_link,
                  parameters |-> b.parameters, built |-> TRUE, heap |-> b.heap]

RebuiltObjects == _check_rebuild_objects(_data, _conditions, _data_link, _parameters, _built, objects)

\* Parameters.__setitem__(item, value): self._src[item].value = value
setitem_object(src, heap, item, value) ==
    IF HasKey(src, item) THEN [heap EXCEPT ![Get(src, item).id].value = value] ELSE heap

\* the write-back loop of FitObject.fit
RECURSIVE write_back_objects(_, _, _, _)
write_back_objects(src, heap, names, values) ==
    IF names = <<>> \/ values = <<>> THEN heap
    ELSE write_back_objects(src, setitem_object(src, heap, Head(names), Head(values)),
                            Tail(names), Tail(values))

\* the fields of the objects the registry refers to
Dereferenced(src, heap) == [i \in DOMAIN src |-> [k |-> src[i].k, v |-> heap[src[i].v.id]]]

\* substitutions that rename one base parameter to different names in
\* different records: Lp has a stored default, Lc has none
ObjectsKwargs ==
    { <<>>,
      << [k |-> "Lp", v |-> PyStr("Lp_a")] >>,
      << [k |-> "Lp", v |-> PyStr("Lp_b")] >>,
      << [k |-> "Lc", v |-> PyStr("Lc_a")] >>,
      << [k |-> "Lc", v |-> PyStr("Lc_b")] >> }

ObjectsNames == {"Lp", "Lp_a", "Lc_b"}
ObjectsValues == {5}

\* a FitObject on a model whose stored defaults are the first objects
InitObjects ==
    /\ object = "FitObject"
    /\ InitFitObject
    /\ InitModel
    /\ model = NoModel
    /\ frame = NoFrame
    /\ call = NoCall
    /\ ret = Returned(<<>>)
    /\ objects = Model_objects

ObjectsLoadData ==
    \E kwargs \in ObjectsKwargs : load_data([x |-> <<2>>, y |-> <<9>>], kwargs)

after_rebuild_objects(op, item, values, rb, result, heap) ==
    /\ object = "FitObject"
    /\ call' = [NoCall EXCEPT !.op = op, !.parameters = item, !.parameter_values = values]
    /\ _data_link' = rb.data_link
    /\ _built' = rb.built
    /\ _conditions' = rb.conditions
    /\ _parameters' = rb.parameters
    /\ ret' = IF rb.exc # "" THEN Raised(rb.exc) ELSE result
    /\ objects' = IF rb.exc # "" \/ result.exc # "" THEN rb.heap ELSE heap
    /\ UNCHANGED <<object, model, frame, _data, model_vars>>

setitem_objects(item, value, rb) ==
    after_rebuild_objects("parameters.__setitem__", <<item>>, <<value>>, rb, Returned(<<>>),
                          setitem_object(rb.parameters, rb.heap, item, value))

\* fit.parameters[item] = value
ObjectsSetItem ==
    \E item \in ObjectsNames, value \in ObjectsValues : setitem_objects(item, value, RebuiltObjects)

fit_objects(solved, rb, src, x) ==
    after_rebuild_objects("fit", <<>>, IF solved THEN x ELSE <<>>, rb,
        IF solved THEN Returned(<<>>) ELSE Raised("SolverError"),
        write_back_objects(rb.parameters, rb.heap, parameters_keys(src),
            mask_assign(parameters_values(src), parameters_fitted(src), x)))

fit_values(solved, rb, src) ==
    fit_objects(solved, rb, src,
                ResultX(count_true(parameters_fitted(src), Len(src))))

\* FitObject.fit(): the solver raises or returns result.x, which is written
\* back name by name
ObjectsFit ==
    \E solved \in BOOLEAN :
        fit_values(solved, RebuiltObjects,
                   Dereferenced(RebuiltObjects.parameters, RebuiltObjects.heap))

NextObjects ==
    \/ ObjectsLoadData
    \/ ObjectsSetItem
    \/ ObjectsFit

\* a fit object whose Parameter objects are followed by identity
SpecObjects == InitObjects /\ [][NextObjects]_vars

----------------------------------------------------------------------------
(* Model objects and their algebra: Model, CompositeModel, InverseModel    *)
(* (fdfit.py and fitting/model.py) and SubtractIndependentOffset           *)
(* (fitting/model.py).  A model object is a record; impl names the module  *)
(* whose classes built it.  A model function is known by its argument      *)
(* names; _jacobian and _derivative tell whether the callable was given.   *)

\* how many operators (+, invert, subtract_offset) a model is built with
MaxDepth == 2

\* how many calls a behaviour makes on a model object once it is built
MaxCalls == 1

\* a default handed to Model.__init__ as a keyword: Parameter(value) with its
\* shared attribute, and the absent default None
Default(value, shared) == [none |-> FALSE, value |-> value, shared |-> shared]
NoDefault == [none |-> TRUE, value |-> 0, shared |-> FALSE]

\* the fields every model object has
ModelObject(impl, kind, name) ==
    [impl |-> impl, kind |-> kind, name |-> name, args |-> <<>>, own_parameters |-> <<>>,
     _jacobian |-> FALSE, _derivative |-> FALSE, depth |-> 0,
     lhs |-> NoModel, rhs |-> NoModel, model |-> NoModel,
     lhs_parameters |-> <<>>, rhs_parameters |-> <<>>,
     model_parameters |-> <<>>, offset_parameter |-> 0]

\* formatter(x) of fitting/model.py Model.__init__
formatter(name, x) == name \o "_" \o x

\* fitting/model.py Model.__init__: the loop that fills _parameters
RECURSIVE model_init_parameters(_, _, _, _)
model_init_parameters(name, argument_names, kwargs, acc) ==
    IF argument_names = <<>> THEN acc
    ELSE LET key == Head(argument_names)
         IN model_init_parameters(name, Tail(argument_names), kwargs,
                IF HasKey(kwargs, key)
                THEN IF Get(kwargs, key).shared
                     THEN SetKey(acc, key, Get(kwargs, key))
                     ELSE SetKey(acc, formatter(name, key), Get(kwargs, key))
                ELSE SetKey(acc, formatter(name, key), NoDefault))

\* fitting/model.py Model(name, model_function, jacobian, derivative, **kwargs)
Model_init(name, args, jacobian, derivative, kwargs) ==
    [ModelObject("model", "Model", name) EXCEPT
        !.args = args,
        !.own_parameters = model_init_parameters(name, args, kwargs, <<>>),
        !._jacobian = jacobian,
        !._derivative = derivative]

\* fdfit.py Model(model_function, jacobian, derivative, **kwargs): every argument
\* name starts at None, a keyword that is no argument raises KeyError
fdfit_Model_init(args, jacobian, derivative, kwargs) ==
    LET zipped == ZipDict(args, [i \in DOMAIN args |-> NoDefault], <<>>)
        filled == parse_loop(zipped, kwargs)
    IN IF filled.exc # "" THEN Raised(filled.exc)
       ELSE Returned([ModelObject("fdfit", "Model", "") EXCEPT
                         !.args = args,
                         !.own_parameters = filled.val,
                         !._jacobian = jacobian,
                         !._derivative = derivative])

\* m._parameters: InverseModel hands out the dictionary of the model it wraps
RECURSIVE _parameters_of(_)
_parameters_of(m) ==
    IF m.kind = "InverseModel" THEN _parameters_of(m.model) ELSE m.own_parameters

\* an entry that exists keeps its value
RECURSIVE update_items_keep(_, _)
update_items_keep(od, items) ==
    IF items = <<>> THEN od
    ELSE update_items_keep(IF HasKey(od, Head(items).k) THEN od
                           ELSE SetKey(od, Head(items).k, Head(items).v),
                           Tail(items))

\* the loops self._parameters[i] = v over lhs._parameters then rhs._parameters
RECURSIVE update_items(_, _)
update_items(od, items) ==
    IF items = <<>> THEN od
    ELSE update_items(SetKey(od, Head(items).k, Head(items).v), Tail(items))

\* CompositeModel.__init__: self._parameters
composite_parameters(lhs, rhs) ==
    update_items(update_items(<<>>, _parameters_of(lhs)), _parameters_of(rhs))

\* every name is taken to sit where it sits in its own list
index_list_own(parameters_all, parameters) == [i \in DOMAIN parameters |-> i - 1]

\* fitting/model.py: [parameters_all.index(par) for par in parameters]
index_list(parameters_all, parameters) ==
    [i \in DOMAIN parameters |-> ListIndex(parameters_all, parameters[i])]

\* fdfit.py: [True if x in parameters else False for x in parameters_all]
mask_list(parameters_all, parameters) ==
    [i \in DOMAIN parameters_all |-> parameters_all[i] \in Range(parameters)]

\* CompositeModel(lhs, rhs) of fdfit.py and of fitting/model.py
CompositeModel(lhs, rhs) ==
    LET own == composite_parameters(lhs, rhs)
        parameters_lhs == Keys(_parameters_of(lhs))
        parameters_rhs == Keys(_parameters_of(rhs))
        parameters_all == Keys(own)
    IN [ModelObject(lhs.impl, "CompositeModel",
                    IF lhs.impl = "model" THEN lhs.name \o "_with_" \o rhs.name ELSE "")
        EXCEPT
           !.lhs = lhs,
           !.rhs = rhs,
           !.depth = 1 + (IF lhs.depth > rhs.depth THEN lhs.depth ELSE rhs.depth),
           !.own_parameters = own,
           !.lhs_parameters = IF lhs.impl = "model"
                              THEN index_list(parameters_all, parameters_lhs)
                              ELSE mask_list(parameters_all, parameters_lhs),
           !.rhs_parameters = IF lhs.impl = "model"
                              THEN index_list(parameters_all, parameters_rhs)
                              ELSE mask_list(parameters_all, parameters_rhs)]

\* InverseModel(model) of fdfit.py and of fitting/model.py
InverseModel(m) ==
    [ModelObject(m.impl, "InverseModel",
                 IF m.impl = "model" THEN "inv(" \o m.name \o ")" ELSE "")
     EXCEPT !.model = m, !.depth = 1 + m.depth]

\* fitting/model.py SubtractIndependentOffset(model, parameter_name)
SubtractIndependentOffset(m, parameter_name) ==
    LET own == update_items(<<[k |-> parameter_name, v |-> NoDefault]>>, _parameters_of(m))
        parameters_parent == Keys(_parameters_of(m))
        parameters_all == Keys(own)
    IN [ModelObject(m.impl, "SubtractIndependentOffset", m.name \o "(x-d)") EXCEPT
           !.model = m,
           !.depth = 1 + m.depth,
           !.own_parameters = own,
           !.model_parameters = index_list(parameters_all, parameters_parent),
           !.offset_parameter = ListIndex(parameters_all, parameter_name)]

\* Python truth values of the flags: True, False and None
PyTrue == [kind |-> "bool", id |-> "True"]
truthy(v) == v = PyTrue

\* the left operand alone decides
py_and_first(a, b) == a

\* a and b: a when a is falsy, b otherwise
py_and(a, b) == IF truthy(a) THEN b ELSE a

\* has_derivative of fitting/model.py (flag = "_derivative") and has_jacobian of
\* both modules (flag = "_jacobian")
RECURSIVE has_flag(_, _)
has_flag(m, flag) ==
    CASE m.kind = "Model" -> IF m[flag] THEN PyTrue ELSE PyNone
      [] m.kind = "CompositeModel" -> py_and(has_flag(m.lhs, flag), has_flag(m.rhs, flag))
      [] m.kind = "InverseModel" ->
            IF flag = "_derivative" THEN has_flag(m.model, "_derivative")
            ELSE IF m.impl = "fdfit" THEN PyTrue
            ELSE py_and(has_flag(m.model, "_jacobian"), has_flag(m.model, "_derivative"))
      [] m.kind = "SubtractIndependentOffset" ->
            IF flag = "_derivative" THEN has_flag(m.model, "_derivative")
            ELSE py_and(has_flag(m.model, "_jacobian"), has_flag(m.model, "_derivative"))

has_jacobian(m) == has_flag(m, "_jacobian")
has_derivative(m) == has_flag(m, "_derivative")

\* a call that returned None
ReturnedNone == [exc |-> "", val |-> <<>>, none |-> TRUE]
IsNone(result) == "none" \in DOMAIN result

\* the function every model function computes from x and its own parameters
\* p_1 .. p_n: the sum of p_j * (x + j); its Jacobian has the row x + j for p_j,
\* its derivative with respect to x is the sum of the p_j.  Calling a function
\* of n parameters with another number of values is a TypeError.
model_function(args, x, parameter_vector) ==
    IF Len(parameter_vector) # Len(args) THEN Raised("TypeError")
    ELSE Returned([i \in DOMAIN x |->
             SumSeq([j \in DOMAIN args |-> parameter_vector[j] * (x[i] + j)])])

_jacobian(args, x, parameter_vector) ==
    IF Len(parameter_vector) # Len(args) THEN Raised("TypeError")
    ELSE Returned([j \in DOMAIN args |-> [i \in DOMAIN x |-> x[i] + j]])

_derivative(args, x, parameter_vector) ==
    IF Len(parameter_vector) # Len(args) THEN Raised("TypeError")
    ELSE Returned([i \in DOMAIN x |-> SumSeq(parameter_vector)])

\* fitting/model.py: [parameter_vector[x] for x in indices]; a position past the
\* end of the vector is an IndexError
take(parameter_vector, indices) ==
    IF \E i \in DOMAIN indices : indices[i] >= Len(parameter_vector)
    THEN Raised("IndexError")
    ELSE Returned([i \in DOMAIN indices |-> parameter_vector[indices[i] + 1]])

\* fdfit.py: parameter_vector[mask] on a numpy array; a mask of another length
\* than the vector is an IndexError
take_mask(parameter_vector, mask) ==
    IF Len(mask) # Len(parameter_vector) THEN Raised("IndexError")
    ELSE Returned(compress(parameter_vector, mask))

\* the parameters of one side of a Composite
side_vector(m, parameter_vector, side_parameters) ==
    IF m.impl = "model" THEN take(parameter_vector, side_parameters)
    ELSE take_mask(parameter_vector, side_parameters)

\* the rows (0-based) a side of a Composite writes, in the order of its own rows
side_rows(m, side_parameters) ==
    IF m.impl = "model" THEN side_parameters
    ELSE LET marked == {i \in DOMAIN side_parameters : side_parameters[i]}
         IN [k \in 1..Cardinality(marked) |->
                (CHOOSE i \in marked : Cardinality({j \in marked : j < i}) = k - 1) - 1]

vector_add(a, b) == [i \in DOMAIN a |-> a[i] + b[i]]
vector_neg(a) == [i \in DOMAIN a |-> 0 - a[i]]

\* a / b on floats, of which the model keeps the integral part; x / 0 is inf
quotient(a, b) == IF b = 0 THEN PosInf ELSE a \div b

\* np.zeros((n_rows, n_cols))
zeros(n_rows, n_cols) == [r \in 1..n_rows |-> [c \in 1..n_cols |-> 0]]

\* jacobian[rows, :] += block
rows_add(matrix, rows, block) ==
    [r \in DOMAIN matrix |->
        IF \E k \in DOMAIN rows : rows[k] = r - 1
        THEN vector_add(matrix[r], block[CHOOSE k \in DOMAIN rows : rows[k] = r - 1])
        ELSE matrix[r]]

\* the right operand is left out
results_first(lhs_result, rhs_result) == lhs_result

\* lhs + rhs of two results: the left operand is evaluated first; None has no +
results_add(lhs_result, rhs_result) ==
    IF lhs_result.exc # "" THEN lhs_result
    ELSE IF rhs_result.exc # "" THEN rhs_result
    ELSE IF IsNone(lhs_result) \/ IsNone(rhs_result) THEN Raised("TypeError")
    ELSE Returned(vector_add(lhs_result.val, rhs_result.val))

\* what scipy.optimize.least_squares can end with
SolverOutcomes == {"converged", "max_nfev"}

\* values of the independent variable the solver can arrive at
SolverIterates == 0..4

\* the start of every inversion: np.ones(independent.shape)
initial(d) == [i \in DOMAIN d |-> 1]

\* scipy.optimize.least_squares(fun, initial, jac=jac, ...): fun and jac are
\* called at the start point and what they raise passes through; jac wraps
\* the derivative in sp.sparse.diags, which has no use for None.  The solver
\* ends converged at a point where fun is zero, when solution has one, or
\* out of evaluations at the iterate it stands on, here the start point.  It
\* reports which in success and does not raise.
least_squares(fun_initial, jac_initial, d, solution, solver) ==
    IF fun_initial.exc # "" THEN fun_initial
    ELSE IF jac_initial.exc # "" THEN jac_initial
    ELSE IF IsNone(jac_initial) THEN Raised("TypeError")
    ELSE IF solver = "converged" /\ solution # <<>>
         THEN Returned([x |-> solution, success |-> TRUE])
         ELSE Returned([x |-> initial(d), success |-> FALSE])

\* invert_function(d, initial, f_min, f_max, model_function,
\* derivative_function), from the result of least_squares on: return result.x
invert_function(result) ==
    IF result.exc # "" THEN result ELSE Returned(result.val.x)

\* has_flag(m, flag) as the if statements of jacobian() and derivative() read it
flag_set(m, flag) == truthy(has_flag(m, flag))

RECURSIVE Model_raw_call(_, _, _, _)
RECURSIVE Model_derivative(_, _, _, _)
RECURSIVE Model_jacobian(_, _, _, _)
RECURSIVE solution_of(_, _, _, _)

\* where the wrapped model takes the values d, point by point, if the solver's
\* iterates hold such points; the empty vector otherwise
solution_of(m, d, parameter_vector, solver) ==
    LET at(v) == Model_raw_call(m, <<v>>, parameter_vector, solver)
        hits(i) == {v \in SolverIterates : at(v).exc = "" /\ at(v).val[1] = d[i]}
    IN IF d # <<>> /\ \A i \in DOMAIN d : hits(i) # {}
       THEN [i \in DOMAIN d |-> CHOOSE v \in hits(i) : TRUE]
       ELSE <<>>

\* the least_squares call of an inversion of m at d
inversion(m, d, parameter_vector, solver) ==
    least_squares(Model_raw_call(m, initial(d), parameter_vector, solver),
                  Model_derivative(m, initial(d), parameter_vector, solver),
                  d, solution_of(m, d, parameter_vector, solver), solver)

\* m._raw_call(independent, parameter_vector) of fitting/model.py and
\* m(data, parameter_vector) of fdfit.py
Model_raw_call(m, x, parameter_vector, solver) ==
    CASE m.kind = "Model" -> model_function(m.args, x, parameter_vector)
      [] m.kind = "CompositeModel" ->
            LET lhs_vector == side_vector(m, parameter_vector, m.lhs_parameters)
                lhs_residual == IF lhs_vector.exc # "" THEN lhs_vector
                                ELSE Model_raw_call(m.lhs, x, lhs_vector.val, solver)
                rhs_vector == side_vector(m, parameter_vector, m.rhs_parameters)
                rhs_residual == IF rhs_vector.exc # "" THEN rhs_vector
                                ELSE Model_raw_call(m.rhs, x, rhs_vector.val, solver)
            IN results_add(lhs_residual, rhs_residual)
      [] m.kind = "InverseModel" ->
            invert_function(inversion(m.model, x, parameter_vector, solver))
      [] m.kind = "SubtractIndependentOffset" ->
            IF m.offset_parameter >= Len(parameter_vector) THEN Raised("IndexError")
            ELSE LET with_offset == [i \in DOMAIN x |->
                                        x[i] - parameter_vector[m.offset_parameter + 1]]
                     model_vector == take(parameter_vector, m.model_parameters)
                 IN IF model_vector.exc # "" THEN model_vector
                    ELSE Model_raw_call(m.model, with_offset, model_vector.val, solver)

\* m.derivative(independent, parameter_vector)
Model_derivative(m, x, parameter_vector, solver) ==
    CASE m.kind = "Model" ->
            IF m.impl = "model" /\ ~flag_set(m, "_derivative") THEN Raised("RuntimeError")
            ELSE IF ~m._derivative THEN Raised("TypeError")
            ELSE _derivative(m.args, x, parameter_vector)
      [] m.kind = "CompositeModel" ->
            IF m.impl = "model" /\ ~flag_set(m, "_derivative") THEN ReturnedNone
            ELSE LET lhs_vector == side_vector(m, parameter_vector, m.lhs_parameters)
                     lhs_derivative == IF lhs_vector.exc # "" THEN lhs_vector
                                       ELSE Model_derivative(m.lhs, x, lhs_vector.val, solver)
                     rhs_vector == side_vector(m, parameter_vector, m.rhs_parameters)
                     rhs_derivative == IF rhs_vector.exc # "" THEN rhs_vector
                                       ELSE Model_derivative(m.rhs, x, rhs_vector.val, solver)
                 IN results_add(lhs_derivative, rhs_derivative)
      [] m.kind = "InverseModel" /\ m.impl = "fdfit" ->
            \* fdfit.py InverseModel sets no _derivative
            Raised("AttributeError")
      [] m.kind = "InverseModel" /\ m.impl = "model" ->
            \* invert_derivative: 1 / derivative of the wrapped model at the
            \* inverted point; the model keeps the integral part of the quotient
            LET F == Model_raw_call(m, x, parameter_vector, solver)
                wrapped == IF F.exc # "" THEN F
                           ELSE Model_derivative(m.model, F.val, parameter_vector, solver)
            IN IF wrapped.exc # "" THEN wrapped
               ELSE IF IsNone(wrapped) THEN Raised("TypeError")
               ELSE Returned([i \in DOMAIN wrapped.val |-> quotient(1, wrapped.val[i])])
      [] m.kind = "SubtractIndependentOffset" ->
            IF ~flag_set(m, "_derivative") THEN ReturnedNone
            ELSE IF m.offset_parameter >= Len(parameter_vector) THEN Raised("IndexError")
            ELSE LET with_offset == [i \in DOMAIN x |->
                                        x[i] - parameter_vector[m.offset_parameter + 1]]
                     model_vector == take(parameter_vector, m.model_parameters)
                 IN IF model_vector.exc # "" THEN model_vector
                    ELSE Model_derivative(m.model, with_offset, model_vector.val, solver)

\* jacobian[rows, :] += block, where block is what the side's jacobian() gave
side_jacobian(matrix, rows, side_vector_result, block) ==
    IF side_vector_result.exc # "" THEN side_vector_result
    ELSE IF block.exc # "" THEN block
    ELSE IF IsNone(block) THEN Raised("TypeError")
    ELSE IF Len(block.val) # Len(rows) THEN Raised("ValueError")
    ELSE Returned(rows_add(matrix, rows, block.val))

\* m.jacobian(independent, parameter_vector)
Model_jacobian(m, x, parameter_vector, solver) ==
    CASE m.kind = "Model" ->
            IF ~flag_set(m, "_jacobian") THEN Raised("RuntimeError")
            ELSE _jacobian(m.args, x, parameter_vector)
      [] m.kind = "CompositeModel" ->
            IF ~flag_set(m, "_jacobian") THEN ReturnedNone
            ELSE LET lhs_vector == side_vector(m, parameter_vector, m.lhs_parameters)
                     with_lhs ==
                         side_jacobian(zeros(Len(parameter_vector), Len(x)),
                                       side_rows(m, m.lhs_parameters), lhs_vector,
                                       IF lhs_vector.exc # "" THEN lhs_vector
                                       ELSE Model_jacobian(m.lhs, x, lhs_vector.val, solver))
                     rhs_vector == side_vector(m, parameter_vector, m.rhs_parameters)
                 IN IF with_lhs.exc # "" THEN with_lhs
                    ELSE side_jacobian(with_lhs.val, side_rows(m, m.rhs_parameters), rhs_vector,
                                       IF rhs_vector.exc # "" THEN rhs_vector
                                       ELSE Model_jacobian(m.rhs, x, rhs_vector.val, solver))
      [] m.kind = "InverseModel" ->
            \* invert_jacobian: -jacobian / derivative of the wrapped model at the
            \* inverted point
            LET F == Model_raw_call(m, x, parameter_vector, solver)
                wrapped_jacobian == IF F.exc # "" THEN F
                                    ELSE Model_jacobian(m.model, F.val, parameter_vector, solver)
                wrapped_derivative == IF wrapped_jacobian.exc # "" THEN wrapped_jacobian
                                      ELSE Model_derivative(m.model, F.val, parameter_vector, solver)
            IN IF wrapped_derivative.exc # "" THEN wrapped_derivative
               ELSE IF IsNone(wrapped_derivative) \/ IsNone(wrapped_jacobian) THEN Raised("TypeError")
               ELSE Returned([r \in DOMAIN wrapped_jacobian.val |->
                        [i \in DOMAIN wrapped_jacobian.val[r] |->
                            quotient(0 - wrapped_jacobian.val[r][i], wrapped_derivative.val[i])]])
      [] m.kind = "SubtractIndependentOffset" ->
            IF ~flag_set(m, "_jacobian") THEN ReturnedNone
            ELSE IF m.offset_parameter >= Len(parameter_vector) THEN Raised("IndexError")
            ELSE LET with_offset == [i \in DOMAIN x |->
                                        x[i] - parameter_vector[m.offset_parameter + 1]]
                     model_vector == take(parameter_vector, m.model_parameters)
                     with_model ==
                         side_jacobian(zeros(Len(parameter_vector), Len(x)),
                                       m.model_parameters, model_vector,
                                       IF model_vector.exc # "" THEN model_vector
                                       ELSE Model_jacobian(m.model, with_offset,
                                                           model_vector.val, solver))
                     offset_row == IF with_model.exc # "" THEN with_model
                                   ELSE Model_derivative(m.model, with_offset,
                                                         model_vector.val, solver)
                 IN IF offset_row.exc # "" THEN offset_row
                    ELSE IF IsNone(offset_row) THEN Raised("TypeError")
                    ELSE Returned([with_model.val EXCEPT
                                      ![m.offset_parameter + 1] = vector_neg(offset_row.val)])

\* verify_derivative / verify_jacobian of fitting/model.py and verify_jacobian
\* of fdfit.py: the length check, the analytic value, the finite differences
\* through the model itself, and the comparison np.allclose, whose outcome is
\* is_close; fdfit.py raises when the two are not close
verify(m, parameter_vector, analytic, evaluated, is_close) ==
    IF Len(parameter_vector) # Len(_parameters_of(m)) THEN Raised("ValueError")
    ELSE IF analytic.exc # "" THEN analytic
    ELSE IF evaluated.exc # "" THEN evaluated
    ELSE IF IsNone(analytic) THEN Raised("TypeError")
    ELSE IF m.impl = "fdfit" /\ ~is_close THEN Raised("RuntimeError")
    ELSE Returned(<<is_close>>)

\* the models handed to the operators: fitting/model.py models M(a, b), M(c, a),
\* N(c), N(a, b) and M(a) with a shared default for a, and fdfit.py models of
\* (a, b), (c, a) and (c); between them every combination of a supplied and a
\* missing Jacobian and derivative occurs
Primitives(impl) ==
    IF impl = "model"
    THEN { Model_init("M", <<"a", "b">>, TRUE, TRUE, <<>>),
           Model_init("M", <<"c", "a">>, TRUE, FALSE,
                      <<[k |-> "c", v |-> Default(2, FALSE)]>>),
           Model_init("N", <<"c">>, FALSE, TRUE, <<>>),
           Model_init("N", <<"a", "b">>, FALSE, FALSE,
                      <<[k |-> "a", v |-> Default(3, TRUE)]>>),
           Model_init("M", <<"a">>, TRUE, TRUE,
                      <<[k |-> "a", v |-> Default(4, TRUE)]>>) }
    ELSE { fdfit_Model_init(<<"a", "b">>, TRUE, TRUE, <<>>).val,
           fdfit_Model_init(<<"c", "a">>, TRUE, FALSE,
                            <<[k |-> "c", v |-> Default(2, FALSE)]>>).val,
           fdfit_Model_init(<<"c">>, FALSE, TRUE, <<>>).val }

\* names subtract_offset is called with: its default, and the name of a
\* parameter the wrapped model may already have
OffsetNames == {"independent_offset", "M_a"}

\* a model object exists and no call on it has been made
InitModels ==
    /\ object = "models"
    /\ InitFitObject
    /\ InitModel
    /\ \E impl \in {"model", "fdfit"} : model \in Primitives(impl)
    /\ frame = NoFrame
    /\ objects = <<>>
    /\ call = NoCall
    /\ ret = Returned(<<>>)

\* an operator builds a new model object from the present one
model_built_by(op, m) ==
    /\ object = "models"
    /\ model.depth < MaxDepth
    /\ model' = m
    /\ call' = [NoCall EXCEPT !.op = op]
    /\ ret' = Returned(<<>>)
    /\ UNCHANGED <<object, objects, frame, fit_vars, model_vars>>

\* Model.__add__(other): model + other, and other + model
Add ==
    \E other \in Primitives(model.impl) :
        \/ model_built_by("__add__", CompositeModel(model, other))
        \/ model_built_by("__radd__", CompositeModel(other, model))

\* Model.invert()
Invert == model_built_by("invert", InverseModel(model))

\* Model.subtract_offset(parameter_name)
SubtractOffset ==
    \E parameter_name \in OffsetNames :
        /\ model.impl = "model"
        /\ model_built_by("subtract_offset", SubtractIndependentOffset(model, parameter_name))

\* a call on the model object that leaves it as it is
model_call_returns(op, x, parameter_vector, result) ==
    /\ object = "models"
    /\ call.calls < MaxCalls
    /\ call' = [NoCall EXCEPT !.op = op, !.x = x, !.parameter_values = parameter_vector,
                              !.calls = call.calls + 1]
    /\ ret' = result
    /\ UNCHANGED <<object, objects, model, frame, fit_vars, model_vars>>

\* model.has_jacobian
HasJacobian == model_call_returns("has_jacobian", <<>>, <<>>, Returned(has_jacobian(model)))

\* model.has_derivative (fitting/model.py)
HasDerivative ==
    /\ model.impl = "model"
    /\ model_call_returns("has_derivative", <<>>, <<>>, Returned(has_derivative(model)))

\* values of the independent variable a caller passes
Xs == {<<2>>, <<1, 3>>}

\* the values m takes at the independent value 2, when it takes any
ValuesOf(m, parameter_vector) ==
    LET forward == Model_raw_call(m, <<2>>, parameter_vector, "converged")
    IN IF forward.exc = "" /\ ~IsNone(forward) THEN {forward.val} ELSE {}

\* what a caller passes as the independent variable of model m: to an
\* inverted model also a value the wrapped model takes
Independents(m, parameter_vector) ==
    Xs \cup (IF m.kind = "InverseModel" THEN ValuesOf(m.model, parameter_vector) ELSE {})

\* parameter vectors a caller passes to a model of n parameters: n distinct
\* values, one value short, one value too many
ParameterVectors(m) ==
    LET n == Len(_parameters_of(m))
    IN {TrialVector(k) : k \in {j \in {n - 1, n, n + 1} : j >= 0}}

\* model._raw_call(independent, parameter_vector) (fitting/model.py),
\* model(data, parameter_vector) (fdfit.py)
RawCall ==
    \E parameter_vector \in ParameterVectors(model), solver \in SolverOutcomes :
        \E x \in Independents(model, parameter_vector) :
            model_call_returns(IF model.impl = "model" THEN "_raw_call" ELSE "__call__",
                               x, parameter_vector,
                               Model_raw_call(model, x, parameter_vector, solver))

\* model.jacobian(independent, parameter_vector)
Jacobian ==
    \E parameter_vector \in ParameterVectors(model), solver \in SolverOutcomes :
        \E x \in Independents(model, parameter_vector) :
            model_call_returns("jacobian", x, parameter_vector,
                               Model_jacobian(model, x, parameter_vector, solver))

\* model.derivative(independent, parameter_vector)
Derivative ==
    \E parameter_vector \in ParameterVectors(model), solver \in SolverOutcomes :
        \E x \in Independents(model, parameter_vector) :
            model_call_returns("derivative", x, parameter_vector,
                               Model_derivative(model, x, parameter_vector, solver))

\* model.verify_jacobian(independent, parameters)
VerifyJacobian ==
    \E parameter_vector \in ParameterVectors(model), solver \in SolverOutcomes,
       is_close \in BOOLEAN :
        \E x \in Independents(model, parameter_vector) :
            model_call_returns("verify_jacobian", x, parameter_vector,
                verify(model, parameter_vector,
                       Model_jacobian(model, x, parameter_vector, solver),
                       Model_raw_call(model, x, parameter_vector, solver), is_close))

\* model.verify_derivative(independent, parameters) (fitting/model.py)
VerifyDerivative ==
    \E parameter_vector \in ParameterVectors(model), solver \in SolverOutcomes,
       is_close \in BOOLEAN :
        \E x \in Independents(model, parameter_vector) :
            /\ model.impl = "model"
            /\ model_call_returns("verify_derivative", x, parameter_vector,
                   verify(model, parameter_vector,
                          Model_derivative(model, x, parameter_vector, solver),
                          Model_raw_call(model, x, parameter_vector, solver), is_close))

\* what the solver reported in a result: its success flag, or nothing when
\* the call raised before the solver ended
reported(result) ==
    IF result.exc # "" THEN ""
    ELSE IF result.val.success THEN "converged" ELSE "not converged"

\* invert_function(d, initial, f_min, f_max, model_function,
\* derivative_function) with the present model as the function to invert and
\* a value the model takes as d
InvertFunction ==
    \E parameter_vector \in ParameterVectors(model), solver \in SolverOutcomes :
        \E d \in ValuesOf(model, parameter_vector) :
            LET result == inversion(model, d, parameter_vector, solver)
            IN /\ object = "models"
               /\ call.calls < MaxCalls
               /\ call' = [NoCall EXCEPT !.op = "invert_function", !.x = d,
                                         !.parameter_values = parameter_vector,
                                         !.solver = reported(result),
                                         !.calls = call.calls + 1]
               /\ ret' = invert_function(result)
               /\ UNCHANGED <<object, objects, model, frame, fit_vars, model_vars>>

NextModels ==
    \/ Add
    \/ Invert
    \/ SubtractOffset
    \/ HasJacobian
    \/ HasDerivative
    \/ RawCall
    \/ Jacobian
    \/ Derivative
    \/ VerifyJacobian
    \/ VerifyDerivative
    \/ InvertFunction

SpecModels == InitModels /\ [][NextModels]_vars

----------------------------------------------------------------------------
(* What the claims speak of, stated from the data alone *)

\* the free-parameter names of the attached data: the str values of all
\* transformations
FreeNames(data) ==
    {data[d].transformations[i].v.s :
        d \in DOMAIN data, i \in 1..Len(model_parameter_names)}
    \ {""}

\* the transformation signatures that occur
Signatures(data) == {condition_string(data[d]) : d \in DOMAIN data}

\* calls on a FitObject that read conditions or the registry
ReadOps == {"parameters", "n_parameters", "n_residuals", "_calculate_residual",
            "_evaluate_jacobian", "fit", "parameters.__setitem__"}

\* the conditions and data_link cover exactly the data list given
BuiltFrom(conditions, data_link, data) ==
    /\ Len(conditions) = Len(data_link)
    /\ UNION {Range(data_link[c]) : c \in DOMAIN data_link} = 0..(Len(data) - 1)
    /\ \A c \in DOMAIN data_link : \A k \in Range(data_link[c]) :
           conditions[c].transformations = data[k + 1].transformations

\* C1: every read of a FitObject (parameters, n_parameters, n_residuals,
\* _calculate_residual, _evaluate_jacobian, fit) that gets past its rebuild
\* works on a registry and on conditions built from all the data attached so
\* far; and after Model.load_data the Model is built against no fit object
\* until _build_model runs again.
C1_ReadsSeeAllData ==
    /\ (object = "FitObject" /\ call.op \in ReadOps /\ ret.exc # "AssertionError") =>
           /\ _built
           /\ Range(parameters_keys(_parameters)) = FreeNames(_data)
           /\ BuiltFrom(_conditions, _data_link, _data)
           /\ (call.op = "n_parameters" => ret.val = <<Cardinality(FreeNames(_data))>>)
           /\ (call.op = "n_residuals" => ret.val = <<n_residuals(_data)>>)
    /\ (object = "Model") =>
           /\ call.op = "Model.load_data" =>
                  \A f \in FitObjects : ~built_against(model_built, f)
           /\ \A f \in FitObjects : built_against(model_built, f) =>
                  /\ call.op = "Model._build_model"
                  /\ call.fit_object = f
                  /\ BuiltFrom(model_conditions, model_data_link, model_data)

\* a read after fit and a further load_data: Lp carries the fitted value, the
\* name Lc_b came with data loaded after that fit
C1_Witness ==
    /\ object = "FitObject"
    /\ call.op = "n_parameters"
    /\ ret = Returned(<<3>>)
    /\ HasKey(_parameters, "Lc_b")
    /\ Get(_parameters, "Lp").value = 7
    /\ Get(_parameters, "Lc_b").value = 0

\* C2: a build over N data records with K distinct signatures leaves K
\* conditions and K data_link entries, and the entries partition 0..N-1.
C2_ConditionsPartitionData ==
    (object = "FitObject" /\ _built) =>
        /\ Len(_conditions) = Cardinality(Signatures(_data))
        /\ Len(_data_link) = Cardinality(Signatures(_data))
        /\ \A i \in 0..(Len(_data) - 1) :
               Cardinality({c \in DOMAIN _data_link : i \in Range(_data_link[c])}) = 1
        /\ \A c \in DOMAIN _data_link : \A j, k \in DOMAIN _data_link[c] :
               j # k => _data_link[c][j] # _data_link[c][k]
        /\ SumSeq([c \in DOMAIN _data_link |-> Len(_data_link[c])]) = Len(_data)

\* three records, two signatures
C2_Witness ==
    /\ object = "FitObject"
    /\ _built
    /\ Len(_data) = 3
    /\ Cardinality(Signatures(_data)) = 2
    /\ Len(_conditions) = 2

\* C3: after a build the registry has one entry per distinct free-parameter
\* name of the attached data, and n_parameters returns that number.
C3_OneEntryPerFreeName ==
    /\ (object = "FitObject" /\ _built) =>
           Len(_parameters) = Cardinality(FreeNames(_data))
    /\ (object = "FitObject" /\ call.op = "n_parameters" /\ ret.exc = "") =>
           ret.val = <<Cardinality(FreeNames(_data))>>

\* three records in one condition, two names
C3_Witness ==
    /\ object = "FitObject"
    /\ call.op = "n_parameters"
    /\ ret = Returned(<<2>>)
    /\ Len(_data) = 3
    /\ Len(_conditions) = 1

\* C4: with Lc fixed to 14.0 in one record and renamed to Lc_b in the next, a
\* build succeeds, the registry has Lc_b and no Lc, and there are two
\* conditions.
C4_FixedAndRenamed ==
    (/\ object = "FitObject"
     /\ Len(_data) = 2
     /\ Values(_data[1].transformations) = <<PyStr("Lp"), PyFloat(14)>>
     /\ Values(_data[2].transformations) = <<PyStr("Lp"), PyStr("Lc_b")>>
     /\ call.op \in ReadOps) =>
        /\ ret.exc = ""
        /\ _built
        /\ HasKey(_parameters, "Lc_b")
        /\ ~HasKey(_parameters, "Lc")
        /\ Len(_conditions) = 2

\* C5: when every substitution keyword is one of the given names,
\* parse_transformation returns an ordered mapping whose keys are the names in
\* the order given; a name maps to its substitution value if it has one and
\* to itself otherwise.
C5_ParseMapsEveryName ==
    (/\ call.op = "parse_transformation"
     /\ \A j \in DOMAIN call.kwargs : call.kwargs[j].k \in Range(call.parameters)) =>
        /\ ret.exc = ""
        /\ Keys(ret.val) = call.parameters
        /\ \A i \in DOMAIN call.parameters :
               IF \E j \in DOMAIN call.kwargs : call.kwargs[j].k = call.parameters[i]
               THEN \E j \in DOMAIN call.kwargs :
                        /\ call.kwargs[j].k = call.parameters[i]
                        /\ ret.val[i].v = call.kwargs[j].v
               ELSE ret.val[i].v = PyStr(call.parameters[i])

\* three names, the first and the second substituted, given in the other order
C5_Witness ==
    /\ call.op = "parse_transformation"
    /\ call.parameters = <<"Lp", "Lc", "St">>
    /\ Keys(call.kwargs) = <<"Lc", "Lp">>
    /\ ret.exc = ""
    /\ Values(ret.val) = <<call.kwargs[2].v, call.kwargs[1].v, PyStr("St")>>
    /\ call.kwargs[1].v # call.kwargs[2].v

\* a substitution keyword of the call that is no base parameter of the model
UnknownKeyword(kwargs) ==
    \E j \in DOMAIN kwargs : kwargs[j].k \notin Range(model_parameter_names)

\* C6: a load_data call with a substitution keyword that is no base parameter
\* raises the unknown-parameter error (KeyError) in that call, and the list of
\* attached data is the one before the call; load_data raises nothing else.
C6_UnknownKeyFailsAtLoad ==
    [][(call'.op \in {"load_data", "Model.load_data"}) =>
           IF UnknownKeyword(call'.kwargs)
           THEN /\ ret'.exc = "KeyError"
                /\ _data' = _data
                /\ model_data' = model_data
           ELSE /\ ret'.exc = ""
                /\ Len(_data') + Len(model_data') = Len(_data) + Len(model_data) + 1]_vars

\* a failed load_data on a FitObject that already holds data
C6_Witness ==
    /\ object = "FitObject"
    /\ call.op = "load_data"
    /\ UnknownKeyword(call.kwargs)
    /\ ret.exc = "KeyError"
    /\ Len(_data) = 2

\* the Parameter a name new to the registry gets: the model's default of the
\* base parameter whose slot the name first occurs in, Parameter() when the
\* model has none
DefaultOf(data, name) ==
    LET names == Flatten([d \in DOMAIN data |-> parameter_names(data[d])])
        sources == Flatten([d \in DOMAIN data |-> source_parameter_names(data[d])])
        default == get_default(sources[ListIndex(names, name) + 1])
    IN IF default.none THEN ParameterDefault ELSE default

\* C7: across a rebuild, a name that is in the registry before and after keeps
\* its Parameter (value, bounds, free flag), whether the model's default, a
\* user or a fit wrote the value; a name that was not there gets a default
\* Parameter.  fit() and an assignment write a value after their rebuild, so
\* for what they write the value is left out of the comparison.
C7_RebuildKeepsParameters ==
    [][(object = "FitObject" /\ ~_built /\ _built') =>
           \A i \in DOMAIN _parameters' :
               LET name == _parameters'[i].k
                   new == _parameters'[i].v
                   written == \/ call'.op = "fit" /\ ret'.exc = ""
                              \/ /\ call'.op = "parameters.__setitem__"
                                 /\ call'.parameters = <<name>>
                   old == IF HasKey(_parameters, name) THEN Get(_parameters, name)
                          ELSE DefaultOf(_data', name)
               IN IF written
                  THEN [new EXCEPT !.value = 0] = [old EXCEPT !.value = 0]
                  ELSE new = old]_vars

\* the registry read after fit, an assignment to Lp and a further load_data:
\* Lp keeps what the user assigned, Lc what fit wrote, Lc_b is new and has the
\* default
C7_Witness ==
    /\ object = "FitObject"
    /\ call.op = "parameters"
    /\ ret.exc = ""
    /\ Keys(ret.val) = <<"Lp", "Lc", "Lc_b">>
    /\ ret.val[1].v = [Parameter(40, 0, 100, TRUE) EXCEPT !.value = 5]
    /\ ret.val[2].v = [ParameterDefault EXCEPT !.value = 7]
    /\ ret.val[3].v = ParameterDefault

\* the row ranges of a traversal as a set of <<data index, start, stop>>
RowRanges(rows) == {<<rows[i].data, rows[i].start, rows[i].stop>> : i \in DOMAIN rows}

\* C8: for one build and one global parameter vector, the row range the
\* Jacobian traversal assigns to a Data record is the index range the residual
\* traversal assigns to it, and each traversal visits every record once.
C8_SameRowRanges ==
    (/\ object = "FitObject"
     /\ call.op \in {"_evaluate_jacobian", "_calculate_residual"}
     /\ ret.exc = "") =>
        LET r == _calculate_residual(_data, _conditions, _data_link, _parameters,
                                     call.parameter_values)
            j == _evaluate_jacobian(_data, _conditions, _data_link, _parameters,
                                    call.parameter_values)
            own == ret.val[2]
        IN /\ own = (IF call.op = "_evaluate_jacobian" THEN j.rows ELSE r.rows)
           /\ j.exc = ""
           /\ RowRanges(j.rows) = RowRanges(r.rows)
           /\ Len(j.rows) = Len(_data)
           /\ \A d \in 0..(Len(_data) - 1) :
                  Cardinality({t \in RowRanges(j.rows) : t[1] = d}) = 1

\* the Jacobian of three records of unequal length, the first and the third
\* in one condition: the traversal order differs from the load order
C8_Witness ==
    /\ object = "FitObject"
    /\ call.op = "_evaluate_jacobian"
    /\ ret.exc = ""
    /\ _data_link = << <<0, 2>>, <<1>> >>
    /\ Len(_data[1].x) = 2
    /\ Len(_data[2].x) = 1
    /\ Len(_data[3].x) = 1
    /\ RowRanges(ret.val[2]) = {<<0, 0, 2>>, <<2, 2, 3>>, <<1, 3, 4>>}

\* the data indices in Condition order and, within a Condition, data_link order
TraversalOrder == Flatten(_data_link)

\* the first row of the k-th record of the traversal: the point counts before it
Offset(k) ==
    SumSeq([j \in 1..(k - 1) |-> Len(_data[TraversalOrder[j] + 1].x)])

\* the global vector a call works with
GlobalVector ==
    IF Len(call.parameter_values) = 0 THEN parameters_values(_parameters)
    ELSE call.parameter_values

\* the local parameter vector of a record: a slot that names a free parameter
\* reads the global vector at the name's place in the registry, a fixed slot
\* holds its number
LocalVector(data_set) ==
    [i \in DOMAIN data_set.transformations |->
        LET t == data_set.transformations[i].v
        IN IF isinstance_str(t)
           THEN GlobalVector[ListIndex(parameters_keys(_parameters), t.s) + 1]
           ELSE t.n]

\* C9: the residual vector has one entry per point of the attached data; the
\* records lie in it one after the other in Condition order and within a
\* Condition in data_link order, each on as many entries as it has points,
\* and a record's entries are y minus the model at x with the local vector of
\* the record's transformations.
C9_ResidualLayout ==
    (object = "FitObject" /\ call.op = "_calculate_residual" /\ ret.exc = "") =>
        LET residual == ret.val[1]
        IN /\ Len(residual) = SumSeq([d \in DOMAIN _data |-> Len(_data[d].x)])
           /\ Len(TraversalOrder) = Len(_data)
           /\ Range(TraversalOrder) = 0..(Len(_data) - 1)
           /\ Offset(Len(_data) + 1) = Len(residual)
           /\ \A k \in DOMAIN TraversalOrder :
                  LET data_set == _data[TraversalOrder[k] + 1]
                      y_model == model_call(data_set.x, LocalVector(data_set))
                  IN \A i \in DOMAIN data_set.x :
                         residual[Offset(k) + i] = data_set.y[i] - y_model[i]

\* the residual at a trial vector for three records, the second renamed and
\* so in a condition of its own, laid out after the third
C9_Witness ==
    /\ object = "FitObject"
    /\ call.op = "_calculate_residual"
    /\ call.parameter_values = <<11, 12, 13>>
    /\ ret.exc = ""
    /\ _data_link = << <<0, 2>>, <<1>> >>
    /\ Values(_data[2].transformations) = <<PyStr("Lp"), PyStr("Lc_b")>>
    /\ _data[1].x = <<3, 5>>
    /\ _data[2].x = <<2>>
    /\ _data[3].x = <<2>>
    /\ ret.val[1] = <<1 - 45, 4 - 67, 9 - 34, 9 - 35>>

\* C10: the Jacobian entry at a row of a record and a global index g is the
\* negated sum of the model's local Jacobian entries at that row over the
\* local slots of the record that read g, and 0 when no slot reads g.
C10_ScatterAdd ==
    (object = "FitObject" /\ call.op = "_evaluate_jacobian" /\ ret.exc = "") =>
        LET jacobian == ret.val[1]
        IN \A k \in DOMAIN TraversalOrder :
               LET data_set == _data[TraversalOrder[k] + 1]
                   local == model_jacobian(data_set.x, LocalVector(data_set))
                   Reads(i, g) ==
                       /\ isinstance_str(data_set.transformations[i].v)
                       /\ parameters_keys(_parameters)[g] = data_set.transformations[i].v.s
               IN \A i \in DOMAIN data_set.x : \A g \in DOMAIN _parameters :
                      jacobian[Offset(k) + i][g] =
                          0 - SumSeq([s \in DOMAIN data_set.transformations |->
                                         IF Reads(s, g) THEN local[s][i] ELSE 0])

Built(condition) == [condition EXCEPT !.p_local = <<>>]

C13_SameConditionIffSameValues ==
    (object = "FitObject" /\ _built) =>
        \A i, j \in DOMAIN _data :
            (\E c \in DOMAIN _data_link :
                 {i - 1, j - 1} \subseteq Range(_data_link[c]))
            <=> Values(_data[i].transformations) = Values(_data[j].transformations)

\* the registry a fit.parameters access works on: the one the rebuild of
\* FitObject.parameters leaves
RegistryBefore == Rebuilt.parameters

\* C20: assigning to the registry by name changes at most the value of the
\* named parameter: its bounds and free flag, every other parameter, the keys
\* and their order stay; for a name that is not in the registry nothing
\* changes and nothing is raised; reading an unknown name returns None and
\* changes nothing.
C20_AssignmentWritesOneValue ==
    [][/\ (call'.op = "parameters.__setitem__" /\ ret'.exc # "AssertionError") =>
              LET item == call'.parameters[1]
              IN /\ ret'.exc = ""
                 /\ Keys(_parameters') = Keys(RegistryBefore)
                 /\ \A i \in DOMAIN RegistryBefore :
                        LET old == RegistryBefore[i].v
                            new == _parameters'[i].v
                        IN IF RegistryBefore[i].k = item
                           THEN /\ [new EXCEPT !.value = 0] = [old EXCEPT !.value = 0]
                                /\ new.value = call'.parameter_values[1]
                           ELSE new = old
       /\ (call'.op = "parameters.__getitem__" /\ ret'.exc # "AssertionError") =>
              LET item == call'.parameters[1]
              IN /\ ret'.exc = ""
                 /\ _parameters' = RegistryBefore
                 /\ IF HasKey(RegistryBefore, item)
                    THEN ret'.val = <<Get(RegistryBefore, item)>>
                    ELSE ret'.val = <<None>>]_vars

\* an assignment to the unknown name Zz after Lp was assigned 5 and Lc_b 6:
\* the registry is as those two assignments left it
C20_Witness ==
    /\ call.op = "parameters.__setitem__"
    /\ call.parameters = <<"Zz">>
    /\ ret.exc = ""
    /\ Keys(_parameters) = <<"Lp", "Lc", "Lc_b">>
    /\ _parameters[1].v = [Parameter(40, 0, 100, TRUE) EXCEPT !.value = 5]
    /\ _parameters[2].v = ParameterDefault
    /\ _parameters[3].v = [ParameterDefault EXCEPT !.value = 6]

\* the parameter names of a model object, in order
NamesOf(m) == Keys(_parameters_of(m))

\* the names of rhs that lhs does not have, in rhs order
RECURSIVE RhsOnly(_, _)
RhsOnly(lhs_names, rhs_names) ==
    IF rhs_names = <<>> THEN <<>>
    ELSE (IF Head(rhs_names) \in Range(lhs_names) THEN <<>> ELSE <<Head(rhs_names)>>)
         \o RhsOnly(lhs_names, Tail(rhs_names))

\* the merged positions (0-based) that side_parameters marks: the entries of
\* an index list (fitting/model.py), the True slots of a mask (fdfit.py)
Marked(m, side_parameters) ==
    IF m.impl = "model" THEN Range(side_parameters)
    ELSE {i - 1 : i \in {j \in DOMAIN side_parameters : side_parameters[j]}}

\* the merged positions (0-based) whose name is a parameter of side
PositionsOf(m, side) == {i - 1 : i \in {j \in DOMAIN NamesOf(m) : NamesOf(m)[j] \in Range(NamesOf(side))}}

\* C14: when lhs + rhs builds a Composite, its parameter names are the names of
\* lhs in lhs order followed by the names only rhs has in rhs order, without
\* duplicates; lhs_parameters marks exactly the merged positions that hold an
\* lhs name and rhs_parameters exactly those that hold an rhs name; and the
\* operands inside the Composite are the operands as they were, parameter
\* mappings included.
C14_CompositeMergesNames ==
    [][call'.op \in {"__add__", "__radd__"} /\ model' # model =>
        /\ model'.kind = "CompositeModel"
        /\ NamesOf(model') = NamesOf(model'.lhs) \o RhsOnly(NamesOf(model'.lhs), NamesOf(model'.rhs))
        /\ \A i, j \in DOMAIN NamesOf(model') : i # j => NamesOf(model')[i] # NamesOf(model')[j]
        /\ Marked(model', model'.lhs_parameters) = PositionsOf(model', model'.lhs)
        /\ Marked(model', model'.rhs_parameters) = PositionsOf(model', model'.rhs)
        /\ call'.op = "__add__" => model'.lhs = model /\ model'.rhs \in Primitives(model.impl)
        /\ call'.op = "__radd__" => model'.rhs = model /\ model'.lhs \in Primitives(model.impl)
      ]_vars

\* a Composite of fitting/model.py whose operands share a name, whose right
\* operand brings a name of its own and whose left operand is itself built by
\* an operator
C14_Witness ==
    /\ object = "models"
    /\ call.op = "__add__"
    /\ model.kind = "CompositeModel"
    /\ model.impl = "model"
    /\ model.lhs.kind # "Model"
    /\ Range(NamesOf(model.lhs)) \cap Range(NamesOf(model.rhs)) # {}
    /\ Len(NamesOf(model)) > Len(NamesOf(model.lhs))

\* whether a model object of fitting/model.py reports a Jacobian, a derivative
HasJ(m) == truthy(has_jacobian(m))
HasD(m) == truthy(has_derivative(m))

\* C16: in fitting/model.py the flag a model reports follows from what it is
\* built of: a Primitive has a Jacobian (derivative) iff one was supplied; a
\* Composite has a Jacobian iff both sides have one and a derivative iff both
\* sides have one; an Inverted model and an IndependentOffset have a Jacobian
\* iff the wrapped model has a Jacobian and a derivative, and a derivative iff
\* the wrapped model has one.
C16_FlagsPropagate ==
    object = "models" /\ model.impl = "model" =>
        /\ call.op = "has_jacobian" =>
               truthy(ret.val) =
                   CASE model.kind = "Model" -> model._jacobian
                     [] model.kind = "CompositeModel" -> HasJ(model.lhs) /\ HasJ(model.rhs)
                     [] model.kind = "InverseModel" -> HasJ(model.model) /\ HasD(model.model)
                     [] model.kind = "SubtractIndependentOffset" ->
                            HasJ(model.model) /\ HasD(model.model)
        /\ call.op = "has_derivative" =>
               truthy(ret.val) =
                   CASE model.kind = "Model" -> model._derivative
                     [] model.kind = "CompositeModel" -> HasD(model.lhs) /\ HasD(model.rhs)
                     [] model.kind = "InverseModel" -> HasD(model.model)
                     [] model.kind = "SubtractIndependentOffset" -> HasD(model.model)

\* has_jacobian was read on a Composite whose left side has a Jacobian and
\* whose right side, an inverted model, has none
C16_Witness ==
    /\ object = "models"
    /\ model.impl = "model"
    /\ call.op = "has_jacobian"
    /\ model.kind = "CompositeModel"
    /\ model.rhs.kind = "InverseModel"
    /\ HasJ(model.lhs)
    /\ ~HasJ(model.rhs)
    /\ ~truthy(ret.val)

\* the operands of a Composite have no parameter name in common
Disjoint(m) == Range(NamesOf(m.lhs)) \cap Range(NamesOf(m.rhs)) = {}

\* the merged vector v cut into A's values and B's values
ValuesOfLhs(m, v) == SubSeq(v, 1, Len(NamesOf(m.lhs)))
ValuesOfRhs(m, v) == SubSeq(v, Len(NamesOf(m.lhs)) + 1, Len(v))

\* C15: for models A and B without a common parameter name, A + B evaluated at
\* x with A's values followed by B's values returns, point by point, A
\* evaluated at x with A's values plus B evaluated at x with B's values; when
\* A or B raises at these values, so does A + B.
C15_CompositeAdds ==
    /\ object = "models"
    /\ call.op \in {"_raw_call", "__call__"}
    /\ model.kind = "CompositeModel"
    /\ Disjoint(model)
    /\ Len(call.parameter_values) = Len(NamesOf(model))
    =>
    \E solver \in SolverOutcomes :
        LET a == Model_raw_call(model.lhs, call.x, ValuesOfLhs(model, call.parameter_values), solver)
            b == Model_raw_call(model.rhs, call.x, ValuesOfRhs(model, call.parameter_values), solver)
        IN IF a.exc = "" /\ b.exc = ""
           THEN /\ ret.exc = ""
                /\ DOMAIN ret.val = DOMAIN call.x
                /\ \A i \in DOMAIN call.x : ret.val[i] = a.val[i] + b.val[i]
           ELSE ret.exc # ""

\* M(a, b) + N(c) of fitting/model.py was evaluated at two points with three
\* values, and so was a sum of fdfit.py models of disjoint names
C15_Witness ==
    /\ object = "models"
    /\ call.op \in {"_raw_call", "__call__"}
    /\ model.kind = "CompositeModel"
    /\ model.lhs.kind = "Model"
    /\ model.rhs.kind = "Model"
    /\ Disjoint(model)
    /\ Len(NamesOf(model.lhs)) = 2
    /\ Len(NamesOf(model.rhs)) = 1
    /\ Len(call.parameter_values) = 3
    /\ Len(call.x) = 2
    /\ ret.exc = ""

\* the calls that build a model object
Constructors == {"__init__", "__add__", "__radd__", "invert", "subtract_offset"}

\* C17: in fitting/model.py, jacobian() on a model whose has_jacobian is false
\* and derivative() on a model whose has_derivative is false raise the
\* missing-derivative error (RuntimeError) at that call and return nothing,
\* whatever the model is built of; building a model never raises.
C17_MissingDerivativeRaises ==
    object = "models" /\ model.impl = "model" =>
        /\ call.op = "jacobian" /\ ~HasJ(model) => ret.exc = "RuntimeError"
        /\ call.op = "derivative" /\ ~HasD(model) => ret.exc = "RuntimeError"
        /\ call.op \in Constructors => ret.exc = ""

\* the calls that take a parameter vector
VectorCalls == {"_raw_call", "jacobian", "derivative", "verify_jacobian", "verify_derivative"}

\* C18: in fitting/model.py every call that takes a parameter vector raises
\* when the vector's length is not the model's parameter count; a vector that
\* is too long or too short never yields a returned value.
C18_WrongLengthRaises ==
    /\ object = "models"
    /\ model.impl = "model"
    /\ call.op \in VectorCalls
    /\ Len(call.parameter_values) # Len(NamesOf(model))
    => ret.exc # ""

\* C19: when the least-squares solver of invert_function (fdfit.py) ends
\* without convergence, invert_function raises; it does not return the
\* iterate the solver stopped at.
C19_NonConvergenceSurfaces ==
    /\ object = "models"
    /\ model.impl = "fdfit"
    /\ call.op = "invert_function"
    /\ call.solver = "not converged"
    => ret.exc # ""

\* the merged vector v read by the names of side: position j holds the value
\* of the merged parameter that has the j-th name of side
ByName(m, side, v) ==
    [j \in DOMAIN NamesOf(side) |-> v[ListIndex(NamesOf(m), NamesOf(side)[j]) + 1]]

\* C21: when a Composite of either module is evaluated with a vector of the
\* merged length, the vector handed to lhs and the vector handed to rhs hold
\* at position j the merged value of that side's j-th parameter name, also
\* when the sides share names and rhs lists a shared name after a name of its
\* own.
C21_SidesReadByName ==
    /\ object = "models"
    /\ call.op \in {"_raw_call", "__call__"}
    /\ model.kind = "CompositeModel"
    /\ Len(call.parameter_values) = Len(NamesOf(model))
    =>
    /\ side_vector(model, call.parameter_values, model.lhs_parameters)
           = Returned(ByName(model, model.lhs, call.parameter_values))
    /\ side_vector(model, call.parameter_values, model.rhs_parameters)
           = Returned(ByName(model, model.rhs, call.parameter_values))

\* the names both operands of a Composite have
SharedNames(m) == Range(NamesOf(m.lhs)) \cap Range(NamesOf(m.rhs))

\* C22: a name both sides of a Composite have occurs once in the merged
\* mapping, at the position it has among the names of lhs, and its default is
\* the default rhs holds for it.
C22_RhsDefaultWins ==
    object = "models" /\ model.kind = "CompositeModel" =>
        \A name \in SharedNames(model) :
            /\ Cardinality({i \in DOMAIN NamesOf(model) : NamesOf(model)[i] = name}) = 1
            /\ ListIndex(NamesOf(model), name) = ListIndex(NamesOf(model.lhs), name)
            /\ Get(_parameters_of(model), name) = Get(_parameters_of(model.rhs), name)

\* a Composite whose sides hold different defaults for a shared name that is
\* not the first name of lhs
C22_Witness ==
    /\ object = "models"
    /\ call.op \in {"__add__", "__radd__"}
    /\ model.kind = "CompositeModel"
    /\ \E name \in SharedNames(model) :
           /\ Get(_parameters_of(model.lhs), name) # Get(_parameters_of(model.rhs), name)
           /\ ~Get(_parameters_of(model.rhs), name).none
           /\ ListIndex(NamesOf(model.lhs), name) > 0

\* the Jacobian row side holds for name, at the side's values read by name;
\* a row of zeros when side has no such parameter
RowOf(side, side_jacobian_rows, name, n_cols) ==
    IF name \in Range(NamesOf(side))
    THEN side_jacobian_rows[ListIndex(NamesOf(side), name) + 1]
    ELSE [c \in 1..n_cols |-> 0]

\* C23: for a Composite whose sides both have Jacobians, called with a vector
\* of the merged length, jacobian() returns one row per merged parameter and
\* one column per data point; the row of a parameter only one side has is that
\* side's row for it, the row of a parameter both sides have is the sum of
\* the two sides' rows; when a side's jacobian() raises, so does the
\* Composite's.
C23_CompositeJacobianRows ==
    /\ object = "models"
    /\ call.op = "jacobian"
    /\ model.kind = "CompositeModel"
    /\ HasJ(model)
    /\ Len(call.parameter_values) = Len(NamesOf(model))
    =>
    \E solver \in SolverOutcomes :
        LET l == Model_jacobian(model.lhs, call.x,
                                ByName(model, model.lhs, call.parameter_values), solver)
            r == Model_jacobian(model.rhs, call.x,
                                ByName(model, model.rhs, call.parameter_values), solver)
        IN IF l.exc = "" /\ r.exc = "" /\ ~IsNone(l) /\ ~IsNone(r)
           THEN /\ ret.exc = ""
                /\ ~IsNone(ret)
                /\ Len(ret.val) = Len(NamesOf(model))
                /\ \A i \in DOMAIN ret.val :
                       /\ Len(ret.val[i]) = Len(call.x)
                       /\ \A c \in DOMAIN call.x :
                              ret.val[i][c] =
                                  RowOf(model.lhs, l.val, NamesOf(model)[i], Len(call.x))[c]
                                  + RowOf(model.rhs, r.val, NamesOf(model)[i], Len(call.x))[c]
           ELSE ret.exc # ""

\* x shifted by the offset d
Shifted(x, d) == [i \in DOMAIN x |-> x[i] - d]

\* C24: an IndependentOffset model over a model of n parameters has n + 1
\* parameters, the offset at position 0 and then the wrapped model's
\* parameters in their order, and its index list for the wrapped model does
\* not hold position 0, whatever the offset is called; called with n + 1
\* values, its Jacobian has the negated wrapped derivative at the shifted
\* argument as row 0 and the wrapped model's Jacobian rows at the shifted
\* argument below it.
C24_OffsetPrepended ==
    object = "models" /\ model.kind = "SubtractIndependentOffset" =>
        /\ Len(NamesOf(model)) = Len(NamesOf(model.model)) + 1
        /\ Tail(NamesOf(model)) = NamesOf(model.model)
        /\ model.offset_parameter = 0
        /\ 0 \notin Range(model.model_parameters)
        /\ /\ call.op = "jacobian"
           /\ HasJ(model)
           /\ Len(call.parameter_values) = Len(NamesOf(model.model)) + 1
           =>
           \E solver \in SolverOutcomes :
               LET with_offset == Shifted(call.x, call.parameter_values[1])
                   j == Model_jacobian(model.model, with_offset,
                                       Tail(call.parameter_values), solver)
                   d == Model_derivative(model.model, with_offset,
                                         Tail(call.parameter_values), solver)
               IN IF j.exc = "" /\ d.exc = "" /\ ~IsNone(j) /\ ~IsNone(d)
                  THEN /\ ret.exc = ""
                       /\ ~IsNone(ret)
                       /\ ret.val = <<vector_neg(d.val)>> \o j.val
                  ELSE ret.exc # ""

\* the registry entries of the free parameters, in registry order
RECURSIVE FreeEntries(_)
FreeEntries(src) ==
    IF src = <<>> THEN <<>>
    ELSE (IF Head(src).v.vary THEN <<Head(src).v>> ELSE <<>>) \o FreeEntries(Tail(src))

FreeValues(src) == [i \in DOMAIN FreeEntries(src) |-> FreeEntries(src)[i].value]
FreeLb(src) == [i \in DOMAIN FreeEntries(src) |-> FreeEntries(src)[i].lb]
FreeUb(src) == [i \in DOMAIN FreeEntries(src) |-> FreeEntries(src)[i].ub]

\* C25: fit() hands the solver, as start vector and as lower and upper bounds,
\* the values and bounds of the free parameters in registry order; when fit()
\* returns, the i-th free parameter in registry order has the i-th entry of
\* the solver's result.
C25_SolverSeesFreeParameters ==
    [][/\ (frame.pc = "idle" /\ frame'.pc = "solving") =>
              /\ frame'.x0 = FreeValues(_parameters')
              /\ frame'.bounds = <<FreeLb(_parameters'), FreeUb(_parameters')>>
       /\ (frame.pc = "solving" /\ frame'.pc = "idle" /\ ret'.exc = "") =>
              /\ Len(call'.parameter_values) = Len(frame.x0)
              /\ FreeValues(_parameters') = call'.parameter_values]_vars

\* fit() has returned with Lc fixed between the free Lp and Lc_b: Lp has the
\* first entry of the result, Lc_b the second
C25_Witness ==
    /\ object = "FitObject"
    /\ call.op = "fit"
    /\ ret.exc = ""
    /\ call.parameter_values = <<7, 8>>
    /\ Keys(_parameters) = <<"Lp", "Lc", "Lc_b">>
    /\ parameters_fitted(_parameters) = <<TRUE, FALSE, TRUE>>
    /\ parameters_values(_parameters) = <<7, 0, 8>>


\* the first attached record, in load order, whose transformation has name
FirstRecord(data, name) ==
    CHOOSE d \in DOMAIN data :
        /\ name \in FreeNames(<<data[d]>>)
        /\ \A e \in 1..(d - 1) : name \notin FreeNames(<<data[e]>>)

\* the first base parameter, in base-parameter order, that record d maps to name
FirstSource(data, d, name) ==
    CHOOSE i \in 1..Len(model_parameter_names) :
        /\ data[d].transformations[i].v = PyStr(name)
        /\ \A j \in 1..(i - 1) : data[d].transformations[j].v # PyStr(name)

\* the model's default for that base parameter, Parameter() where it has none
FirstDefault(data, name) ==
    LET d == FirstRecord(data, name)
        default == Get(Model_parameters, model_parameter_names[FirstSource(data, d, name)])
    IN IF default.none THEN ParameterDefault ELSE default

\* C26: a call that builds puts every free-parameter name of the attached data
\* into the registry, and a name that was not there before gets the model's
\* default of the base parameter that the first record with that name maps to
\* it (the first such base parameter of that record); an assignment writes its
\* value after the build, so the value it writes is left out.
C26_NewNamesGetFirstDefault ==
    [][(object = "FitObject" /\ ~_built /\ call'.op \in ReadOps) =>
           \A name \in FreeNames(_data) :
               /\ HasKey(_parameters', name)
               /\ ~HasKey(_parameters, name) =>
                      LET new == Get(_parameters', name)
                          default == FirstDefault(_data, name)
                      IN IF call'.op = "parameters.__setitem__" /\ call'.parameters = <<name>>
                         THEN [new EXCEPT !.value = 0] = [default EXCEPT !.value = 0]
                         ELSE new = default]_vars


\* C27: get_local_parameters(g) returns one entry per base parameter, in
\* base-parameter order: the constant in a fixed slot, g at the global index
\* of the slot's name in a free slot, whatever the calls before wrote; the
\* condition's fixed constants, p_external and p_indices stay as they were.
C27_LocalizeReadsOnlyG ==
    [][(object = "Condition" /\ call'.op = "get_local_parameters") =>
           LET condition == _conditions[1]
               transformed == Values(condition.transformations)
               g == call'.parameter_values
           IN /\ Len(ret'.val) = Len(transformed)
              /\ \A i \in DOMAIN transformed :
                     ret'.val[i] = IF transformed[i].kind = "str"
                                   THEN g[ListIndex(Keys(_parameters), transformed[i].s) + 1]
                                   ELSE transformed[i].n
              /\ _conditions'[1].transformations = condition.transformations
              /\ _conditions'[1].p_external = condition.p_external
              /\ _conditions'[1].p_indices = condition.p_indices
              /\ \A i \in DOMAIN transformed :
                     ~condition.p_external[i] => _conditions'[1].p_local[i] = condition.p_local[i]]_vars

\* Lc_b, 14.0, Lp localized at (21, 22, 23) after a call at (11, 12, 13), with
\* the registry in the order Lc_b, Lp, Lc
C27_Witness ==
    /\ object = "Condition"
    /\ call.op = "get_local_parameters"
    /\ Keys(_parameters) = <<"Lc_b", "Lp", "Lc">>
    /\ Values(_conditions[1].transformations) = <<PyStr("Lp"), PyFloat(14), PyStr("Lc_b")>>
    /\ frame.parameter_vector = <<11, 12, 13>>
    /\ call.parameter_values = <<21, 22, 23>>
    /\ ret.val = <<22, 14, 21>>


\* seen followed by the names of new that are not in it yet, each once
RECURSIVE AddNew(_, _)
AddNew(seen, new) ==
    IF new = <<>> THEN seen
    ELSE AddNew(IF Head(new) \in Range(seen) THEN seen ELSE Append(seen, Head(new)), Tail(new))

\* the free-parameter names of the attached data in first-seen order: records
\* in load order, within a record the base-parameter order
RECURSIVE FirstSeen(_, _)
FirstSeen(data, seen) ==
    IF data = <<>> THEN seen
    ELSE LET values == Values(Head(data).transformations)
             new == SelectSeq(values, LAMBDA v : v.kind = "str")
         IN FirstSeen(Tail(data), AddNew(seen, [i \in DOMAIN new |-> new[i].s]))

\* C28: the keys of a built registry are the free-parameter names of the
\* attached data in first-seen order, and no call changes the position of a
\* key that is there: the keys before a step are a prefix of the keys after it.
C28_KeysOnlyGrow ==
    [][object = "FitObject" =>
           /\ _built' => Keys(_parameters') = FirstSeen(_data', <<>>)
           /\ Len(Keys(_parameters)) <= Len(Keys(_parameters'))
           /\ SubSeq(Keys(_parameters'), 1, Len(Keys(_parameters))) = Keys(_parameters)]_vars

\* Lp renamed to Lc in the first record, plain names in the second, both
\* renamed to z in the third, each followed by a build: the registry grew
\* Lc, then Lp, then z
C28_Witness ==
    /\ object = "FitObject"
    /\ _built
    /\ Len(_data) = 3
    /\ parameter_names(_data[1]) = <<"Lc", "Lc">>
    /\ parameter_names(_data[2]) = <<"Lp", "Lc">>
    /\ parameter_names(_data[3]) = <<"z", "z">>
    /\ Keys(_parameters) = <<"Lc", "Lp", "z">>
    /\ Get(_parameters, "Lp").value = 5


\* C29: after load_data calls that succeeded, a read of fit.parameters builds
\* and returns: neither assertion of _generate_conditions fails, whether the
\* data has renamed, repeated or fixed numeric substitutions.
C29_BuildPassesPreconditions ==
    (object = "FitObject" /\ call.op = "parameters") =>
        /\ ret.exc = ""
        /\ _built
        /\ \A d \in DOMAIN _data :
               /\ assert_keys(_data[d], model_parameter_names)
               /\ assert_values(_data[d], ZipDict(Keys(_parameters), Keys(_parameters), <<>>))


\* the positions of the model's stored default objects
StoredIds == {Model_references[i].v.id : i \in DOMAIN Model_references} \ {0}

IdOf(src, name) == Get(src, name).id

\* C30: the names of the registry hold pairwise distinct Parameter objects,
\* none of them a stored default of the model; an assignment changes the value
\* of the named parameter only, a fit gives every free parameter its own
\* solver value and leaves the others, and neither changes a stored default of
\* the model.
C30_NamesHoldOwnObjects ==
    [][object = "FitObject" =>
          /\ \A i, j \in DOMAIN _parameters' :
                 i # j => _parameters'[i].v.id # _parameters'[j].v.id
          /\ \A i \in DOMAIN _parameters' : _parameters'[i].v.id \notin StoredIds
          /\ \A id \in StoredIds : objects'[id] = objects[id]
          /\ (call'.op = "parameters.__setitem__" /\ ret'.exc = "") =>
                 \A i \in DOMAIN _parameters' :
                     LET name == _parameters'[i].k
                         new == objects'[_parameters'[i].v.id]
                     IN /\ name = call'.parameters[1] => new.value = call'.parameter_values[1]
                        /\ (name # call'.parameters[1] /\ HasKey(_parameters, name)) =>
                               new = objects[IdOf(_parameters, name)]
          /\ (call'.op = "fit" /\ ret'.exc = "") =>
                 \A i \in DOMAIN _parameters' :
                     LET new == objects'[_parameters'[i].v.id]
                         before == Dereferenced(RebuiltObjects.parameters, RebuiltObjects.heap)
                     IN new.value = IF new.vary
                                    THEN call'.parameter_values[
                                             count_true(parameters_fitted(before), i)]
                                    ELSE before[i].v.value]_vars

\* Lp renamed to Lp_a in one record and to Lp_b in another; Lp_a was assigned
\* 5: Lp_b and the model's stored default of Lp still hold 40
C30_Witness ==
    /\ object = "FitObject"
    /\ call.op = "parameters.__setitem__"
    /\ call.parameters = <<"Lp_a">>
    /\ HasKey(_parameters, "Lp_a")
    /\ HasKey(_parameters, "Lp_b")
    /\ objects[IdOf(_parameters, "Lp_a")].value = 5
    /\ objects[IdOf(_parameters, "Lp_b")].value = 40
    /\ objects[IdOf(Model_references, "Lp")].value = 40

====
